---- MODULE Spec2Model ----
(***************************************************************************)
(* Model of the tolerant JSON repair engine (JSONRepair and its parsers).  *)
(*                                                                         *)
(* A character is a string naming one code point: an ASCII character names *)
(* itself ("a", "{", "\n"), a non-ASCII code point is named "U+XXXX".      *)
(* The input text and every output buffer are sequences of characters.     *)
(* Go indexes from 0, TLA+ sequences from 1: text[i] in the source is      *)
(* text[i+1] here, text[a:b] is Slice(text, a, b).                         *)
(*                                                                         *)
(* A parser works on a state st = [i, out, ev]: the shared cursor, the     *)
(* strings.Builder it writes to, and the set of events observed so far     *)
(* ("panic": an index or slice outside its bounds was evaluated; "stall":  *)
(* a loop iteration neither advanced the cursor nor left the loop;         *)
(* "unrestored": an alternative of parseValue started on an output other   *)
(* than the one saved before the attempt that failed; "backtracked": an    *)
(* object attempt of parseValue failed after it changed the output).       *)
(* A parser returns [ok, err, i, out, ev].                                 *)
(*                                                                         *)
(* ProcessJSON, the application's entry point around the engine, is called *)
(* with callText, callIndent, callTrim and callKeepOrder; response is the  *)
(* JSONResponse it returns and repairCalls counts its calls of JSONRepair. *)
(* The frontend's tab store holds tabs and activeTabId; nextTabId stands   *)
(* for the ids crypto.randomUUID has yet to hand out and tabCall is the    *)
(* last call made to the store, with the tabs it started from.             *)
(***************************************************************************)
EXTENDS Integers, Sequences, FiniteSets, TLC

VARIABLES callText, callTrim, pc, retText, retErr, cursor, events,
          callIndent, callKeepOrder, response, repairCalls,
          tabs, activeTabId, nextTabId, tabCall

storeVars == <<tabs, activeTabId, nextTabId, tabCall>>

vars == <<callText, callTrim, pc, retText, retErr, cursor, events,
          callIndent, callKeepOrder, response, repairCalls, storeVars>>

(***************************************************************************)
(* Characters and character classes                                        *)
(***************************************************************************)
codeDoubleQuote == "\""
codeQuote == "'"
codeBackslash == "\\"
codeNonBreakingSpace == "U+00A0"
codeDoubleQuoteLeft == "U+201C"
codeDoubleQuoteRight == "U+201D"
codeQuoteLeft == "U+2018"
codeQuoteRight == "U+2019"
codeGraveAccent == "U+0060"
codeAcuteAccent == "U+00B4"
codeNul == "U+0000"
codeBackspace == "U+0008"

LowerLetters ==
  {"a","b","c","d","e","f","g","h","i","j","k","l","m",
   "n","o","p","q","r","s","t","u","v","w","x","y","z"}

UpperLetters ==
  {"A","B","C","D","E","F","G","H","I","J","K","L","M",
   "N","O","P","Q","R","S","T","U","V","W","X","Y","Z"}

Digits == {"0","1","2","3","4","5","6","7","8","9"}

isDigit(c) == c \in Digits

isLetter(c) == c \in LowerLetters \cup UpperLetters

isHex(c) == c \in Digits \cup {"a","b","c","d","e","f","A","B","C","D","E","F"}

isDelimiter(c) == c \in {",", ":", "[", "]", "/", "{", "}", "(", ")", "\n"}

isSpecialWhitespace(c) ==
  c \in {codeNonBreakingSpace, "U+2000", "U+2001", "U+2002", "U+2003", "U+2004", "U+2005",
         "U+2006", "U+2007", "U+2008", "U+2009", "U+200A", "U+202F", "U+205F", "U+3000",
         "U+1680"}

isWhitespace(c) == c \in {" ", "\n", "\t", "\r"} \/ isSpecialWhitespace(c)

isWhitespaceExceptNewline(c) == c \in {" ", "\t", "\r"}

isDoubleQuote(c) == c = codeDoubleQuote

isDoubleQuoteLike(c) == c \in {codeDoubleQuote, codeDoubleQuoteLeft, codeDoubleQuoteRight}

isSingleQuote(c) == c = codeQuote

isSingleQuoteLike(c) == c \in {codeQuote, codeQuoteLeft, codeQuoteRight, codeGraveAccent, codeAcuteAccent}

isQuote(c) == isDoubleQuoteLike(c) \/ isSingleQuoteLike(c)

applyQuoteFunc(f, c) ==
  CASE f = "isDoubleQuote" -> isDoubleQuote(c)
    [] f = "isSingleQuote" -> isSingleQuote(c)
    [] f = "isDoubleQuoteLike" -> isDoubleQuoteLike(c)
    [] f = "isSingleQuoteLike" -> isSingleQuoteLike(c)
    [] OTHER -> isQuote(c)

isControlCharacter(c) == c \in {codeNul, codeBackspace, "\t", "\n", "\f", "\r"}

isFunctionNameCharStart(c) == isLetter(c) \/ c \in {"_", "$"}

isFunctionNameChar(c) == isFunctionNameCharStart(c) \/ isDigit(c)

isUnquotedStringDelimiter(c) == c \in {",", "[", "]", "{", "}", "+", " ", "\t", "\n", "\r"}

\* regexStartOfValue ^[{[\w-]$ or a quote
isStartOfValue(c) == c \in {"{", "[", "_", "-"} \/ isLetter(c) \/ isDigit(c) \/ isQuote(c)

escapeCharacters == {"\"", "\\", "/", "b", "f", "n", "r", "t", "u"}

\* the text controlCharacters maps a control character to, else \u%04x
controlReplacement(c) ==
  CASE c = codeBackspace -> <<"\\", "b">>
    [] c = "\f" -> <<"\\", "f">>
    [] c = "\n" -> <<"\\", "n">>
    [] c = "\r" -> <<"\\", "r">>
    [] c = "\t" -> <<"\\", "t">>
    [] OTHER -> <<"\\", "u", "0", "0", "0", "0">>

(***************************************************************************)
(* Sequences as Go strings and slices                                      *)
(***************************************************************************)
At(s, i) ==
  LET
    NoChar == "U+FFFF"
  IN
  IF i >= 0 /\ i < Len(s) THEN s[i + 1] ELSE NoChar

SliceOK(s, a, b) == 0 <= a /\ a <= b /\ b <= Len(s)

Slice(s, a, b) == IF SliceOK(s, a, b) THEN SubSeq(s, a + 1, b) ELSE <<>>

Q == <<"\"">>

Quoted(s) == Q \o s \o Q

HasPrefix(s, p) == Len(s) >= Len(p) /\ SubSeq(s, 1, Len(p)) = p

HasSuffix(s, p) == Len(s) >= Len(p) /\ SubSeq(s, Len(s) - Len(p) + 1, Len(s)) = p

LastIndex(s, c) ==
  LET
    \* strings.LastIndex(s, c) for a one-character needle, -1 when absent
    RECURSIVE lastIndexFrom(_, _, _)
    lastIndexFrom(s0, c0, k) ==
      IF k = 0 THEN -1
      ELSE IF s0[k] = c0 THEN k - 1
      ELSE lastIndexFrom(s0, c0, k - 1)
  IN
  lastIndexFrom(s, c, Len(s))

RECURSIVE trimLeftSet(_, _)
trimLeftSet(s, set) ==
  IF s # <<>> /\ Head(s) \in set THEN trimLeftSet(Tail(s), set) ELSE s

RECURSIVE trimRightSet(_, _)
trimRightSet(s, set) ==
  IF s # <<>> /\ s[Len(s)] \in set THEN trimRightSet(SubSeq(s, 1, Len(s) - 1), set) ELSE s

TrimSpace(s) ==
  LET
    \* unicode.IsSpace on the characters of the model
    UnicodeSpaces == {" ", "\t", "\n", "\r", "\f", "U+000B", "U+0085", "U+2028", "U+2029"}
                     \cup {c \in {codeNonBreakingSpace, "U+2000", "U+2001", "U+2002", "U+2003",
                                  "U+2004", "U+2005", "U+2006", "U+2007", "U+2008", "U+2009",
                                  "U+200A", "U+202F", "U+205F", "U+3000", "U+1680"} : TRUE}
  IN
  trimRightSet(trimLeftSet(s, UnicodeSpaces), UnicodeSpaces)

TrimQuotes(s) == trimRightSet(trimLeftSet(s, {"\""}), {"\""})

(***************************************************************************)
(* Parser states and results                                               *)
(***************************************************************************)
\* the call of a function of the source, defined after the parsers
RECURSIVE Call(_, _)

NoErr == [kind |-> "none", pos |-> 0]

MkSt(i, out, ev) == [i |-> i, out |-> out, ev |-> ev]

\* the parser state a result leaves behind
St(r) == [i |-> r.i, out |-> r.out, ev |-> r.ev]

Res(ok, st) == [ok |-> ok, err |-> NoErr, i |-> st.i, out |-> st.out, ev |-> st.ev]

Raise(kind, st) ==
  [ok |-> FALSE, err |-> [kind |-> kind, pos |-> st.i], i |-> st.i, out |-> st.out,
   ev |-> st.ev \cup {"raised"}]

Mark(st, e) == [st EXCEPT !.ev = @ \cup {e}]

MarkIf(st, cond, e) == IF cond THEN Mark(st, e) ELSE st

\* a scratch strings.Builder{} at cursor j, as the lookaheads of the source use
Scratch(st, j) == [i |-> j, out |-> <<>>, ev |-> st.ev]

Write(st, s) == [st EXCEPT !.out = @ \o s]

SetOut(st, s) == [st EXCEPT !.out = s]

SetI(st, j) == [st EXCEPT !.i = j]

URLProtocols == {<<"h","t","t","p">>, <<"h","t","t","p","s">>, <<"f","t","p">>}

(***************************************************************************)
(* Helper functions of the source                                          *)
(***************************************************************************)
atEndOfBlockComment(text, i) ==
  i + 1 < Len(text) /\ text[i + 1] = "*" /\ text[i + 2] = "/"

\* atEndOfNumber without its end-of-text case: the reads that follow it are unguarded
atEndOfNumberInsideText(text, i) ==
  i < Len(text) /\ (isDelimiter(text[i + 1]) \/ isWhitespace(text[i + 1]))

atEndOfNumber(text, i) ==
  i >= Len(text) \/ isDelimiter(text[i + 1]) \/ isWhitespace(text[i + 1])

stripLastOccurrence(s, c, stripRemainingText) ==
  LET index == LastIndex(s, c) IN
  IF index # -1
  THEN IF stripRemainingText THEN SubSeq(s, 1, index)
       ELSE SubSeq(s, 1, index) \o SubSeq(s, index + 2, Len(s))
  ELSE s

\* insertBeforeLastWhitespace appending after the trailing whitespace instead of before it
insertAfterLastWhitespace(s, textToInsert) == s \o textToInsert

insertBeforeLastWhitespace(s, textToInsert) ==
  LET
    \* index of the last character of s that is not whitespace, -1 when there is none
    RECURSIVE lastNonWhitespace(_, _)
    lastNonWhitespace(s0, index) ==
      IF index >= 0 /\ isWhitespace(s0[index + 1]) THEN lastNonWhitespace(s0, index - 1) ELSE index
  IN
  IF Len(s) = 0 \/ ~isWhitespace(s[Len(s)]) THEN s \o textToInsert
  ELSE LET index == lastNonWhitespace(s, Len(s) - 1) IN
       SubSeq(s, 1, index + 1) \o textToInsert \o SubSeq(s, index + 2, Len(s))

removeAtIndex(s, start, count) == Slice(s, 0, start) \o Slice(s, start + count, Len(s))

\* the output with its dangling comma left in place
keepDanglingComma(s) == s

\* the comma the containers drop when nothing but white space follows it in the output
dropDanglingComma(s) ==
  LET lastCommaIdx == LastIndex(s, ",") IN
  IF lastCommaIdx # -1 /\ TrimSpace(SubSeq(s, lastCommaIdx + 2, Len(s))) = <<>>
  THEN SubSeq(s, 1, lastCommaIdx) \o SubSeq(s, lastCommaIdx + 2, Len(s))
  ELSE s

\* scan back over letters: the index before the protocol word that ends at j
RECURSIVE lettersBack(_, _, _)
lettersBack(text, j, low) ==
  IF j >= low /\ isLetter(text[j + 1]) THEN lettersBack(text, j - 1, low) ELSE j

\* scan forward to the end of the line
RECURSIVE lineEnd(_, _)
lineEnd(text, i) ==
  IF i < Len(text) /\ text[i + 1] # "\n" /\ text[i + 1] # "\r" THEN lineEnd(text, i + 1) ELSE i

isURLStart(text, i) ==
  IF i <= 0 \/ At(text, i) # ":" THEN [ok |-> FALSE, panic |-> i >= Len(text) /\ i > 0]
  ELSE LET j == lettersBack(text, i - 1, 0)
           protocol == Slice(text, j + 1, i)
       IN [ok |-> protocol \in URLProtocols /\ i + 2 < Len(text)
                  /\ text[i + 2] = "/" /\ text[i + 3] = "/",
           panic |-> ~SliceOK(text, j + 1, i)]

(***************************************************************************)
(* Whitespace and comments                                                 *)
(***************************************************************************)
RECURSIVE whitespaceEnd(_, _, _)
whitespaceEnd(text, i, skipNewline) ==
  LET
    isW(c, skipNewline0) == IF skipNewline0 THEN isWhitespace(c) ELSE isWhitespaceExceptNewline(c)
  IN
  IF i < Len(text) /\ (isW(text[i + 1], skipNewline) \/ isSpecialWhitespace(text[i + 1]))
  THEN whitespaceEnd(text, i + 1, skipNewline)
  ELSE i

\* special whitespace is repaired to a plain space
repairWhitespace(s) == [k \in 1..Len(s) |-> IF isSpecialWhitespace(s[k]) THEN " " ELSE s[k]]

\* parseWhitespace that consumes the whitespace without writing it to the output
parseWhitespaceSilently(text, st, skipNewline) ==
  LET start == st.i
      end == whitespaceEnd(text, start, skipNewline)
  IN Res(end > start, MkSt(end, st.out, st.ev))

parseWhitespace(text, st, skipNewline) ==
  LET start == st.i
      end == whitespaceEnd(text, start, skipNewline)
  IN Res(end > start, MkSt(end, st.out \o repairWhitespace(SubSeq(text, start + 1, end)), st.ev))

parseComment(text, st) ==
  LET
    RECURSIVE blockCommentEnd(_, _)
    blockCommentEnd(text0, i) ==
      IF i < Len(text0) /\ ~atEndOfBlockComment(text0, i) THEN blockCommentEnd(text0, i + 1) ELSE i
  IN
  LET i == st.i IN
  IF i + 1 < Len(text) /\ text[i + 1] = "/" /\ text[i + 2] = "*"
  THEN LET e == blockCommentEnd(text, i) IN
       Res(TRUE, SetI(st, IF e + 2 <= Len(text) THEN e + 2 ELSE e))
  ELSE IF i + 1 < Len(text) /\ text[i + 1] = "/" /\ text[i + 2] = "/"
  THEN IF i > 0 /\ text[i] = ":"
       THEN LET j == lettersBack(text, i - 2, 0)
                protocol == Slice(text, j + 1, i - 1)
                st1 == MarkIf(st, ~SliceOK(text, j + 1, i - 1), "panic")
            IN IF protocol \in URLProtocols THEN Res(FALSE, st1)
               ELSE Res(TRUE, SetI(st1, lineEnd(text, i)))
       ELSE Res(TRUE, SetI(st, lineEnd(text, i)))
  ELSE Res(FALSE, st)

\* one iteration of the loop of parseWhitespaceAndSkipComments:
\* [again |-> the loop continues, st |-> the state after the iteration]
skipCommentStep(text, st, skipNewline) ==
  LET c == Call("parseComment", <<text, st>>) IN
  IF ~c.ok THEN [again |-> FALSE, st |-> St(c)]
  ELSE LET w == parseWhitespace(text, St(c), skipNewline) IN
       [again |-> w.ok, st |-> St(w)]

parseWhitespaceAndSkipComments(text, st, skipNewline) ==
  LET
    RECURSIVE skipCommentsLoop(_, _, _)
    skipCommentsLoop(text0, st0, skipNewline0) ==
      LET s == skipCommentStep(text0, st0, skipNewline0) IN
      IF ~s.again THEN s.st
      ELSE IF s.st.i <= st0.i THEN Mark(s.st, "stall")
      ELSE skipCommentsLoop(text0, s.st, skipNewline0)
  IN
  LET w == parseWhitespace(text, st, skipNewline)
      e == skipCommentsLoop(text, St(w), skipNewline)
  IN Res(e.i > st.i, e)

\* the cursor after white space and comments from j, writing to a scratch builder
skipAhead(text, st, j) == Call("parseWhitespaceAndSkipComments", <<text, Scratch(st, j), TRUE>>)

parseCharacter(text, st, code) ==
  IF st.i < Len(text) /\ text[st.i + 1] = code
  THEN Res(TRUE, MkSt(st.i + 1, st.out \o <<code>>, st.ev))
  ELSE Res(FALSE, st)

skipCharacter(text, st, code) ==
  IF st.i < Len(text) /\ text[st.i + 1] = code
  THEN Res(TRUE, SetI(st, st.i + 1))
  ELSE Res(FALSE, st)

skipEllipsis(text, st) ==
  LET w == Call("parseWhitespaceAndSkipComments", <<text, st, TRUE>>)
      i == w.i
  IN IF i + 2 < Len(text) /\ text[i + 1] = "." /\ text[i + 2] = "." /\ text[i + 3] = "."
     THEN LET w2 == Call("parseWhitespaceAndSkipComments", <<text, SetI(St(w), i + 3), TRUE>>)
              c == skipCharacter(text, St(w2), ",")
          IN Res(TRUE, St(c))
     ELSE Res(FALSE, St(w))

\* cursor after white space (isWhitespace only, no comments) from j
RECURSIVE skipWs(_, _)
skipWs(text, j) ==
  IF j < Len(text) /\ isWhitespace(text[j + 1]) THEN skipWs(text, j + 1) ELSE j

(***************************************************************************)
(* lookAheadForColon                                                       *)
(***************************************************************************)
lookAheadForColon(text, i) ==
  LET
    RECURSIVE blockEndAhead(_, _)
    blockEndAhead(text0, j) ==
      IF j + 1 < Len(text0) /\ ~(text0[j + 1] = "*" /\ text0[j + 2] = "/")
      THEN blockEndAhead(text0, j + 1) ELSE j

    \* the first loop: white space and comments
    RECURSIVE lookAheadSkip(_, _)
    lookAheadSkip(text0, j) ==
      IF j >= Len(text0) THEN j
      ELSE IF isWhitespace(text0[j + 1]) \/ isSpecialWhitespace(text0[j + 1]) THEN lookAheadSkip(text0, j + 1)
      ELSE IF text0[j + 1] = "/" /\ j + 1 < Len(text0) /\ text0[j + 2] = "/"
           THEN lookAheadSkip(text0, lineEnd(text0, j + 2))
      ELSE IF text0[j + 1] = "/" /\ j + 1 < Len(text0) /\ text0[j + 2] = "*"
           THEN LET e == blockEndAhead(text0, j + 2) IN
                lookAheadSkip(text0, IF e + 1 < Len(text0) THEN e + 2 ELSE e)
      ELSE j

    \* the second loop: [found |-> a colon or equal sign ended it, hasKey, j]
    RECURSIVE lookAheadKey(_, _, _)
    lookAheadKey(text0, j, hasKey) ==
      IF j < Len(text0) /\ ~isDelimiter(text0[j + 1]) /\ ~isQuote(text0[j + 1])
      THEN IF text0[j + 1] = ":" \/ text0[j + 1] = "="
           THEN [found |-> TRUE, hasKey |-> hasKey, j |-> j]
           ELSE lookAheadKey(text0, j + 1, hasKey \/ ~isWhitespace(text0[j + 1]))
      ELSE [found |-> FALSE, hasKey |-> hasKey, j |-> j]

    RECURSIVE nextQuote(_, _)
    nextQuote(text0, j) ==
      IF j < Len(text0) /\ ~isQuote(text0[j + 1]) THEN nextQuote(text0, j + 1) ELSE j
  IN
  LET j0 == IF i < Len(text) /\ (text[i + 1] = "\n" \/ text[i + 1] = "\r") THEN i + 1 ELSE i
      j1 == lookAheadSkip(text, j0)
      k == lookAheadKey(text, j1, FALSE)
  IN IF k.found THEN k.hasKey
     ELSE IF k.j < Len(text) /\ isQuote(text[k.j + 1])
          THEN LET q == nextQuote(text, k.j + 1) IN
               IF q < Len(text) /\ isQuote(text[q + 1])
               THEN LET n == skipWs(text, q + 1) IN n < Len(text) /\ text[n + 1] = ":"
               ELSE FALSE
          ELSE FALSE

(***************************************************************************)
(* Scalar parsers: numbers, keywords, regular expressions                  *)
(***************************************************************************)
RECURSIVE digitsEnd(_, _)
digitsEnd(text, i) ==
  IF i < Len(text) /\ isDigit(text[i + 1]) THEN digitsEnd(text, i + 1) ELSE i

TrimPrefixPlus(s) == IF s # <<>> /\ Head(s) = "+" THEN Tail(s) ELSE s

repairNumberEndingWithNumericSymbol(text, start, st, i) ==
  Res(TRUE, MkSt(i, st.out \o Slice(text, start, i) \o <<"0">>, st.ev))

\* text[i] read right after atEndOfNumber answered false
digitAfterCheck(text, st, i) ==
  [digit |-> isDigit(At(text, i)), st |-> MarkIf(st, i >= Len(text), "panic")]

\* the exponent part of parseNumber, entered with the cursor i after the e
parseExponent(text, st, start, i0) ==
  LET
    \* the loop over the signs of an exponent: [i, hasMinus, hasPlus]
    RECURSIVE signsEnd(_, _, _, _)
    signsEnd(text0, i, hasMinus, hasPlus) ==
      IF i < Len(text0) /\ text0[i + 1] \in {"-", "+"}
      THEN signsEnd(text0, i + 1, hasMinus \/ text0[i + 1] = "-", hasPlus \/ text0[i + 1] # "-")
      ELSE [i |-> i, hasMinus |-> hasMinus, hasPlus |-> hasPlus]

    \* strings.LastIndexAny(s, "eE")
    LastIndexE(s) ==
      LET a == LastIndex(s, "e")
          b == LastIndex(s, "E")
      IN IF a > b THEN a ELSE b
  IN
  LET sg == signsEnd(text, i0, FALSE, FALSE)
      i == sg.i
  IN IF atEndOfNumber(text, i) THEN repairNumberEndingWithNumericSymbol(text, start, st, i)
     ELSE LET d == digitAfterCheck(text, st, i) IN
          IF ~d.digit
          THEN LET num == Slice(text, start, i)
                   cleanNum == trimRightSet(num, {"e", "E", "+", "-"})
                   repairedNum == cleanNum \o <<"e", "+", "0">>
               IN Res(TRUE, MkSt(i, d.st.out \o TrimPrefixPlus(repairedNum), d.st.ev))
          ELSE LET numSoFar == Slice(text, start, i)
                   eIdx == LastIndexE(numSoFar)
                   cleanNum == SubSeq(numSoFar, 1, eIdx + 1)
                                 \o (IF sg.hasMinus THEN <<"-">> ELSE IF sg.hasPlus THEN <<"+">> ELSE <<>>)
                   e == digitsEnd(text, i)
                   finalNum == cleanNum \o Slice(text, i, e)
               IN Res(TRUE, MkSt(e, d.st.out \o TrimPrefixPlus(finalNum), d.st.ev))

\* regexp ^0\d
hasInvalidLeadingZero(num) == Len(num) >= 2 /\ num[1] = "0" /\ isDigit(num[2])

\* the end of parseNumber, after the optional fraction and without exponent
parseNumberEnd(text, st, start, i) ==
  IF ~atEndOfNumber(text, i) THEN Res(FALSE, SetI(st, start))
  ELSE IF i > start
  THEN LET num == Slice(text, start, i) IN
       IF hasInvalidLeadingZero(num) THEN Res(TRUE, MkSt(i, st.out \o Quoted(num), st.ev))
       ELSE Res(TRUE, MkSt(i, st.out \o TrimPrefixPlus(num), st.ev))
  ELSE Res(FALSE, SetI(st, i))

\* parseNumber from the optional fraction on, the cursor i after the integer digits
parseFraction(text, st, start, i2) ==
  LET hasDot == i2 < Len(text) /\ text[i2 + 1] = "."
      i3 == IF hasDot THEN i2 + 1 ELSE i2
  IN IF hasDot /\ atEndOfNumber(text, i3) THEN repairNumberEndingWithNumericSymbol(text, start, st, i3)
     ELSE LET d == IF hasDot THEN digitAfterCheck(text, st, i3) ELSE [digit |-> TRUE, st |-> st] IN
          IF ~d.digit THEN Res(FALSE, SetI(d.st, start))
          ELSE LET i4 == IF hasDot THEN digitsEnd(text, i3) ELSE i2 IN
               IF i4 < Len(text) /\ text[i4 + 1] \in {"e", "E"}
               THEN parseExponent(text, d.st, start, i4 + 1)
               ELSE parseNumberEnd(text, d.st, start, i4)

parseNumber(text, st) ==
  LET start == st.i
      hasSign == start < Len(text) /\ text[start + 1] \in {"-", "+"}
      i1 == IF hasSign THEN start + 1 ELSE start
  IN IF hasSign /\ atEndOfNumber(text, i1) THEN repairNumberEndingWithNumericSymbol(text, start, st, i1)
     ELSE LET d == IF hasSign THEN digitAfterCheck(text, st, i1) ELSE [digit |-> TRUE, st |-> st] IN
          IF ~d.digit THEN Res(FALSE, SetI(d.st, start))
          ELSE parseFraction(text, d.st, start, digitsEnd(text, i1))

parseKeyword(text, st, name, value) ==
  IF Len(text) - st.i >= Len(name) /\ SubSeq(text, st.i + 1, st.i + Len(name)) = name
  THEN Res(TRUE, MkSt(st.i + Len(name), st.out \o value, st.ev))
  ELSE Res(FALSE, st)

kwNull == <<"n","u","l","l">>

parseKeywords(text, st) ==
  LET
    kwTrue == <<"t","r","u","e">>

    kwFalse == <<"f","a","l","s","e">>

    \* the six calls of parseKeywords, in order: <<name, value>>
    Keywords ==
      << <<kwTrue, kwTrue>>, <<kwFalse, kwFalse>>, <<kwNull, kwNull>>,
         << <<"T","r","u","e">>, kwTrue>>, << <<"F","a","l","s","e">>, kwFalse>>,
         << <<"N","o","n","e">>, kwNull>> >>

    RECURSIVE parseKeywordsFrom(_, _, _)
    parseKeywordsFrom(text0, st0, n) ==
      IF n > Len(Keywords) THEN Res(FALSE, st0)
      ELSE LET r == parseKeyword(text0, st0, Keywords[n][1], Keywords[n][2]) IN
           IF r.ok THEN r ELSE parseKeywordsFrom(text0, st0, n + 1)
  IN
  parseKeywordsFrom(text, st, 1)

parseRegex(text, st) ==
  LET
    RECURSIVE regexEnd(_, _)
    regexEnd(text0, i) ==
      IF i < Len(text0) /\ (text0[i + 1] # "/" \/ text0[i] = "\\") THEN regexEnd(text0, i + 1) ELSE i

    \* strings.ReplaceAll(s, "\\", "\\\\")
    RECURSIVE doubleBackslashes(_)
    doubleBackslashes(s) ==
      IF s = <<>> THEN <<>>
      ELSE (IF Head(s) = "\\" THEN <<"\\", "\\">> ELSE <<Head(s)>>) \o doubleBackslashes(Tail(s))
  IN
  IF st.i < Len(text) /\ text[st.i + 1] = "/"
  THEN LET start == st.i
           e == regexEnd(text, start + 1)
           i == IF e < Len(text) /\ text[e + 1] = "/" THEN e + 1 ELSE e
       IN Res(TRUE, MkSt(i, st.out \o Quoted(doubleBackslashes(Slice(text, start, i))), st.ev))
  ELSE Res(FALSE, st)

(***************************************************************************)
(* isNumericString: strconv.ParseFloat(s, 64) returns no error             *)
(***************************************************************************)
\* unicode lower case of a character of the model
ToLowerChar(c) ==
  LET
    LowerMap ==
      "A" :> "a" @@ "B" :> "b" @@ "C" :> "c" @@ "D" :> "d" @@ "E" :> "e" @@ "F" :> "f" @@ "G" :>
      "g" @@ "H" :> "h" @@ "I" :> "i" @@ "J" :> "j" @@ "K" :> "k" @@ "L" :> "l" @@ "M" :> "m" @@
      "N" :> "n" @@ "O" :> "o" @@ "P" :> "p" @@ "Q" :> "q" @@ "R" :> "r" @@ "S" :> "s" @@ "T" :>
      "t" @@ "U" :> "u" @@ "V" :> "v" @@ "W" :> "w" @@ "X" :> "x" @@ "Y" :> "y" @@ "Z" :> "z"
  IN
  IF c \in UpperLetters THEN LowerMap[c] ELSE c

ToLower(s) == [k \in 1..Len(s) |-> ToLowerChar(s[k])]

isNumericString(s) ==
  LET
    \* strconv special(): inf, infinity (signed or not) and nan, in any case
    isSpecialFloat(s0) ==
      LET l == ToLower(s0)
          body == IF l # <<>> /\ l[1] \in {"+", "-"} THEN Tail(l) ELSE l
      IN \/ body \in {<<"i","n","f">>, <<"i","n","f","i","n","i","t","y">>}
         \/ l = <<"n","a","n">>

    \* strconv underscoreOK, from position k with the last character class seen
    RECURSIVE underscoreScan(_, _, _, _)
    underscoreScan(s0, k, saw, hex) ==
      IF k > Len(s0) THEN saw # "_"
      ELSE IF isDigit(s0[k]) \/ (hex /\ isHex(s0[k])) THEN underscoreScan(s0, k + 1, "0", hex)
      ELSE IF s0[k] = "_" THEN saw = "0" /\ underscoreScan(s0, k + 1, "_", hex)
      ELSE saw # "_" /\ underscoreScan(s0, k + 1, "!", hex)

    underscoreOK(s0) ==
      LET t == IF s0 # <<>> /\ s0[1] \in {"-", "+"} THEN Tail(s0) ELSE s0
          prefixed == Len(t) >= 2 /\ t[1] = "0" /\ ToLowerChar(t[2]) \in {"b", "o", "x"}
      IN IF prefixed THEN underscoreScan(t, 3, "0", ToLowerChar(t[2]) = "x")
         ELSE underscoreScan(t, 1, "^", FALSE)

    \* the mantissa loop of strconv readFloat; m = [i, sawdot, sawdigits, nd, dp, us, digs]
    \* (digs: the significant digits read, at most MantissaDigits of them)
    MantissaDigits == 20

    RECURSIVE readMantissa(_, _, _)
    readMantissa(s0, hex, m) ==
      IF m.i > Len(s0) THEN m
      ELSE LET c == s0[m.i] IN
           IF c = "_" THEN readMantissa(s0, hex, [m EXCEPT !.i = @ + 1, !.us = TRUE])
           ELSE IF c = "." THEN
                IF m.sawdot THEN m
                ELSE readMantissa(s0, hex, [m EXCEPT !.i = @ + 1, !.sawdot = TRUE, !.dp = m.nd])
           ELSE IF isDigit(c) THEN
                IF c = "0" /\ m.nd = 0
                THEN readMantissa(s0, hex, [m EXCEPT !.i = @ + 1, !.sawdigits = TRUE, !.dp = @ - 1])
                ELSE readMantissa(s0, hex, [m EXCEPT !.i = @ + 1, !.sawdigits = TRUE, !.nd = @ + 1,
                                     !.digs = IF Len(@) < MantissaDigits THEN Append(@, c) ELSE @])
           ELSE IF hex /\ isHex(c) THEN
                readMantissa(s0, hex, [m EXCEPT !.i = @ + 1, !.sawdigits = TRUE, !.nd = @ + 1,
                                     !.digs = IF Len(@) < MantissaDigits THEN Append(@, ToLowerChar(c)) ELSE @])
           ELSE m

    DigitValue(c) ==
      CASE c = "0" -> 0 [] c = "1" -> 1 [] c = "2" -> 2 [] c = "3" -> 3 [] c = "4" -> 4
        [] c = "5" -> 5 [] c = "6" -> 6 [] c = "7" -> 7 [] c = "8" -> 8 [] OTHER -> 9

    ExponentCap == 10000

    \* the exponent digits of readFloat: [i, e]
    RECURSIVE readExponent(_, _, _, _)
    readExponent(s0, i, e, us) ==
      IF i <= Len(s0) /\ (isDigit(s0[i]) \/ s0[i] = "_")
      THEN IF s0[i] = "_" THEN readExponent(s0, i + 1, e, TRUE)
           ELSE readExponent(s0, i + 1, IF e < ExponentCap THEN e * 10 + DigitValue(s0[i]) ELSE e, us)
      ELSE [i |-> i, e |-> e, us |-> us]

    \* the largest finite float64 is 1.7976931348623157e308; a decimal rounds to
    \* infinity from 1.797693134862315808e308 on
    OverflowDigits ==
      <<"1","7","9","7","6","9","3","1","3","4","8","6","2","3","1","5","8","0","8","0">>

    MaxDecimalExponent == 308

    \* digit strings compared as decimal fractions 0.d1d2...
    RECURSIVE digitsAtLeast(_, _, _)
    digitsAtLeast(a, b, k) ==
      IF k > Len(b) THEN TRUE
      ELSE LET x == IF k <= Len(a) THEN DigitValue(a[k]) ELSE 0
               y == DigitValue(b[k])
           IN IF x > y THEN TRUE ELSE IF x < y THEN FALSE ELSE digitsAtLeast(a, b, k + 1)

    HexLeadingBits(c) ==
      IF c \in {"8","9","a","b","c","d","e","f"} THEN 4
      ELSE IF c \in {"4","5","6","7"} THEN 3
      ELSE IF c \in {"2","3"} THEN 2 ELSE 1

    MaxBinaryExponent == 1024

    \* strconv.ParseFloat(s, 64): the syntax of readFloat and the range check
    parseFloatOK(s0) ==
      IF isSpecialFloat(s0) THEN TRUE
      ELSE LET i0 == IF s0 # <<>> /\ s0[1] \in {"+", "-"} THEN 2 ELSE 1
               hex == i0 + 2 <= Len(s0) /\ s0[i0] = "0" /\ ToLowerChar(s0[i0 + 1]) = "x"
               m == readMantissa(s0, hex, [i |-> IF hex THEN i0 + 2 ELSE i0, sawdot |-> FALSE,
                                          sawdigits |-> FALSE, nd |-> 0, dp |-> 0, us |-> FALSE,
                                          digs |-> <<>>])
               dp0 == IF m.sawdot THEN m.dp ELSE m.nd
               hasExp == m.i <= Len(s0) /\ ToLowerChar(s0[m.i]) = (IF hex THEN "p" ELSE "e")
               j == IF hasExp /\ m.i + 1 <= Len(s0) /\ s0[m.i + 1] \in {"+", "-"} THEN m.i + 2 ELSE m.i + 1
               neg == hasExp /\ m.i + 1 <= Len(s0) /\ s0[m.i + 1] = "-"
               x == readExponent(s0, j, 0, m.us)
           IN /\ s0 # <<>>
              /\ i0 <= Len(s0)
              /\ m.sawdigits
              /\ IF hasExp THEN j <= Len(s0) /\ isDigit(s0[j]) /\ x.i = Len(s0) + 1
                 ELSE ~hex /\ m.i = Len(s0) + 1
              /\ (IF hasExp THEN x.us ELSE m.us) => underscoreOK(s0)
              /\ LET e == IF hasExp THEN (IF neg THEN 0 - x.e ELSE x.e) ELSE 0 IN
                 IF m.nd = 0 THEN TRUE
                 ELSE IF hex
                 THEN (4 * dp0 + e) - (4 - HexLeadingBits(m.digs[1])) <= MaxBinaryExponent
                 ELSE \/ dp0 + e - 1 < MaxDecimalExponent
                      \/ dp0 + e - 1 = MaxDecimalExponent /\ ~digitsAtLeast(m.digs, OverflowDigits, 1)
  IN
  s # <<>> /\ parseFloatOK(s)

(***************************************************************************)
(* Heuristic content classifiers (file path detection)                     *)
(***************************************************************************)
\* len() of a Go string: the number of bytes
RECURSIVE ByteLength(_)
ByteLength(s) ==
  LET
    \* number of bytes of the UTF-8 encoding of a character
    ByteLen(c) ==
      IF c \in {codeNonBreakingSpace, codeAcuteAccent} THEN 2
      ELSE IF c \in {codeDoubleQuoteLeft, codeDoubleQuoteRight, codeQuoteLeft, codeQuoteRight,
                     "U+2000", "U+200A", "U+202F", "U+205F", "U+3000", "U+1680"} THEN 3
      ELSE 1
  IN
  IF s = <<>> THEN 0 ELSE ByteLen(Head(s)) + ByteLength(Tail(s))

Count(s, c) == Cardinality({k \in 1..Len(s) : s[k] = c})

isLikelyFilePath(content) ==
  LET
    windowsPathPatterns ==
      {<<"p","r","o","g","r","a","m"," ","f","i","l","e","s">>, <<"s","y","s","t","e","m","3","2">>,
       <<"w","i","n","d","o","w","s","\\">>, <<"p","r","o","g","r","a","m","d","a","t","a">>,
       <<"u","s","e","r","s","\\">>, <<"d","o","c","u","m","e","n","t","s">>,
       <<"d","e","s","k","t","o","p">>, <<"d","o","w","n","l","o","a","d","s">>,
       <<"m","u","s","i","c">>, <<"p","i","c","t","u","r","e","s">>, <<"v","i","d","e","o","s">>,
       <<"a","p","p","d","a","t","a">>, <<"r","o","a","m","i","n","g">>, <<"p","u","b","l","i","c">>,
       <<"t","e","m","p","\\">>, <<"f","o","n","t","s">>, <<"s","t","a","r","t","u","p">>,
       <<"s","e","n","d","t","o">>, <<"r","e","c","e","n","t">>, <<"n","e","t","h","o","o","d">>,
       <<"c","o","o","k","i","e","s">>, <<"c","a","c","h","e">>, <<"h","i","s","t","o","r","y">>,
       <<"f","a","v","o","r","i","t","e","s">>, <<"t","e","m","p","l","a","t","e","s">>}

    unixPathPatterns ==
      {<<"/","b","i","n","/">>, <<"/","e","t","c","/">>, <<"/","v","a","r","/">>,
       <<"/","u","s","r","/">>, <<"/","o","p","t","/">>, <<"/","h","o","m","e","/">>,
       <<"/","t","m","p","/">>, <<"/","l","i","b","/">>, <<"/","l","i","b","6","4","/">>,
       <<"/","p","r","o","c","/">>, <<"/","d","e","v","/">>, <<"/","s","y","s","/">>,
       <<"/","r","u","n","/">>, <<"/","s","r","v","/">>, <<"/","m","n","t","/">>,
       <<"/","m","e","d","i","a","/">>, <<"/","b","o","o","t","/">>, <<"/","s","n","a","p","/">>,
       <<"/","u","s","r","/","s","h","a","r","e","/">>,
       <<"/","u","s","r","/","l","o","c","a","l","/">>, <<"/","u","s","r","/","s","r","c","/">>,
       <<"/","v","a","r","/","l","o","g","/">>, <<"/","v","a","r","/","l","i","b","/">>,
       <<"/","v","a","r","/","c","a","c","h","e","/">>,
       <<"/","v","a","r","/","s","p","o","o","l","/">>,
       <<"/","A","p","p","l","i","c","a","t","i","o","n","s","/">>,
       <<"/","L","i","b","r","a","r","y","/">>, <<"/","S","y","s","t","e","m","/">>,
       <<"/","U","s","e","r","s","/">>}

    commonFileExtensions ==
      {<<".","c","o","n","f","i","g">>, <<".","c","f","g">>, <<".","i","n","i">>,
       <<".","c","o","n","f">>, <<".","p","r","o","p","e","r","t","i","e","s">>,
       <<".","t","o","m","l">>, <<".","j","s","o","n">>, <<".","x","m","l">>, <<".","y","m","l">>,
       <<".","y","a","m","l">>, <<".","c","s","v">>, <<".","t","s","v">>,
       <<".","b","a","c","k","u","p">>, <<".","b","a","k">>, <<".","o","l","d">>, <<".","t","m","p">>,
       <<".","t","e","m","p">>, <<".","s","w","p">>, <<".","~">>, <<".","l","o","g">>,
       <<".","o","u","t">>, <<".","e","r","r">>, <<".","d","e","b","u","g">>,
       <<".","t","r","a","c","e">>, <<".","d","b">>, <<".","s","q","l","i","t","e">>,
       <<".","s","q","l","i","t","e","3">>, <<".","m","d","b">>, <<".","t","x","t">>, <<".","m","d">>,
       <<".","r","e","a","d","m","e">>, <<".","d","o","c">>, <<".","d","o","c","x">>,
       <<".","p","d","f">>, <<".","z","i","p">>, <<".","t","a","r">>, <<".","g","z">>,
       <<".","r","a","r">>, <<".","7","z">>, <<".","b","z","2">>, <<".","x","z">>, <<".","j","s">>,
       <<".","t","s">>, <<".","p","y">>, <<".","g","o">>, <<".","j","a","v","a">>, <<".","c","p","p">>,
       <<".","c">>, <<".","h">>, <<".","c","s">>, <<".","p","h","p">>, <<".","r","b">>,
       <<".","r","s">>, <<".","m","p","3">>, <<".","m","p","4">>, <<".","j","p","g">>,
       <<".","j","p","e","g">>, <<".","p","n","g">>, <<".","g","i","f">>, <<".","b","m","p">>,
       <<".","w","e","b","p">>, <<".","s","v","g">>, <<".","i","c","o">>, <<".","d","a","t">>,
       <<".","b","i","n">>, <<".","r","a","w">>, <<".","d","u","m","p">>}

    windowsDirs ==
      {<<"p","r","o","g","r","a","m"," ","f","i","l","e","s">>, <<"w","i","n","d","o","w","s">>,
       <<"u","s","e","r","s">>, <<"t","e","m","p">>, <<"s","y","s","t","e","m","3","2">>,
       <<"d","o","c","u","m","e","n","t","s">>, <<"p","r","o","g","r","a","m","d","a","t","a">>,
       <<"d","e","s","k","t","o","p">>, <<"d","o","w","n","l","o","a","d","s">>,
       <<"m","u","s","i","c">>, <<"p","i","c","t","u","r","e","s">>, <<"v","i","d","e","o","s">>,
       <<"a","p","p","d","a","t","a">>, <<"r","o","a","m","i","n","g">>, <<"p","u","b","l","i","c">>,
       <<"i","n","e","t","p","u","b">>, <<"w","w","w","r","o","o","t">>,
       <<"n","o","d","e","_","m","o","d","u","l","e","s">>, <<"n","p","m">>}

    unixDirs ==
      {<<"/","b","i","n","/">>, <<"/","e","t","c","/">>, <<"/","v","a","r","/">>,
       <<"/","u","s","r","/">>, <<"/","o","p","t","/">>, <<"/","h","o","m","e","/">>,
       <<"/","t","m","p","/">>, <<"/","l","i","b","/">>, <<"/","p","r","o","c","/">>,
       <<"/","d","e","v","/">>, <<"/","s","y","s","/">>, <<"/","r","u","n","/">>,
       <<"/","s","r","v","/">>, <<"/","m","n","t","/">>, <<"/","m","e","d","i","a","/">>,
       <<"/","b","o","o","t","/">>, <<"/","A","p","p","l","i","c","a","t","i","o","n","s","/">>,
       <<"/","L","i","b","r","a","r","y","/">>, <<"/","S","y","s","t","e","m","/">>,
       <<"/","U","s","e","r","s","/">>}

    Contains(s, p) == \E k \in 0..(Len(s) - Len(p)) : SubSeq(s, k + 1, k + Len(p)) = p

    ContainsChar(s, c) == \E k \in 1..Len(s) : s[k] = c

    \* strings.Index(s, c) for a one-character needle, -1 when absent
    RECURSIVE indexFrom(_, _, _)
    indexFrom(s, c, k) ==
      IF k > Len(s) THEN -1 ELSE IF s[k] = c THEN k - 1 ELSE indexFrom(s, c, k + 1)

    Index(s, c) == indexFrom(s, c, 1)

    \* strings.Split(s, sep) for a one-character separator
    RECURSIVE Split(_, _)
    Split(s, sep) ==
      LET k == Index(s, sep) IN
      IF k = -1 THEN <<s>>
      ELSE <<SubSeq(s, 1, k)>> \o Split(SubSeq(s, k + 2, Len(s)), sep)

    isAlnum(c) == isLetter(c) \/ isDigit(c)

    hasExcessiveEscapeSequences(content0) ==
      LET n == ByteLength(content0)
          \* FindAllString(\\u[0-9a-fA-F]{4}): matches do not overlap, and two matches
          \* cannot overlap anyway since a match holds one backslash, at its start
          unicodeMatches == Cardinality({k \in 1..(Len(content0) - 5) :
                               /\ content0[k] = "\\" /\ content0[k + 1] = "u"
                               /\ \A d \in 2..5 : isHex(content0[k + d])})
          escapeCount == Cardinality({k \in 1..(Len(content0) - 1) :
                               content0[k] = "\\" /\ content0[k + 1] \in {"n", "t", "r", "b", "f", "\"", "\\"}})
      IN IF n < 3 THEN FALSE
         ELSE IF unicodeMatches >= 2 /\ unicodeMatches * 6 * 5 > 3 * n THEN TRUE
         ELSE escapeCount > 0 /\ escapeCount * 2 * 10 > 3 * n

    \* the lower-case letters after the first space, counted from the second character on
    RECURSIVE lowercaseAfterSpace(_, _, _)
    lowercaseAfterSpace(s, k, foundSpace) ==
      IF k > Len(s) THEN 0
      ELSE IF s[k] = " " THEN lowercaseAfterSpace(s, k + 1, TRUE)
      ELSE (IF foundSpace /\ s[k] \in LowerLetters THEN 1 ELSE 0) + lowercaseAfterSpace(s, k + 1, foundSpace)

    isLikelyTextBlob(content0) ==
      LET n == ByteLength(content0)
          spaceCount == Count(content0, " ")
      IN IF n < 3 THEN FALSE
         ELSE \/ Contains(content0, <<" ", " ">>)
              \/ ContainsChar(content0, "\n") \/ ContainsChar(content0, "\t") \/ ContainsChar(content0, "\r")
              \/ Contains(content0, <<".", " ">>) \/ Contains(content0, <<"!", " ">>) \/ Contains(content0, <<"?", " ">>)
              \/ spaceCount > 5
              \/ /\ n > 10 /\ content0[1] \in UpperLetters /\ spaceCount > 2
                 /\ lowercaseAfterSpace(content0, 2, FALSE) >= 3

    isBase64String(content0) ==
      /\ ByteLength(content0) >= 20
      /\ \A k \in 1..Len(content0) : isAlnum(content0[k]) \/ content0[k] \in {"+", "/", "="}

    hasURLEncoding(content0) ==
      \E k \in 1..(Len(content0) - 2) : content0[k] = "%" /\ isHex(content0[k + 1]) /\ isHex(content0[k + 2])

    \* driveLetterRe or containsDriveRe: the second subsumes the first
    isWindowsAbsolutePath(content0) ==
      \E k \in 1..(Len(content0) - 2) : isLetter(content0[k]) /\ content0[k + 1] = ":" /\ content0[k + 2] = "\\"

    isUNCPath(content0) ==
      IF ~HasPrefix(content0, <<"\\", "\\">>) \/ HasPrefix(content0, <<"\\", "\\", "\\", "\\">>) THEN FALSE
      ELSE LET parts == Split(content0, "\\") IN
           Len(parts) >= 4 /\ Len(parts[3]) > 0 /\ Len(parts[4]) > 0

    isUnixAbsolutePath(content0) ==
      IF HasPrefix(content0, <<"~", "/">>) THEN TRUE
      ELSE IF HasPrefix(content0, <<"/">>) /\ ByteLength(content0) > 1
      THEN IF content0[2] \in {" ", "\n", "\t", "\r", ")", "]", "}"} THEN FALSE
           ELSE \/ Count(content0, "/") >= 2
                \/ \E p \in unixPathPatterns : HasPrefix(ToLower(content0), p)
      ELSE FALSE

    containsPathSeparator(content0) == ContainsChar(content0, "/") \/ ContainsChar(content0, "\\")

    countValidPathSegments(content0, separator) ==
      LET parts == Split(content0, separator) IN
      Cardinality({k \in 1..Len(parts) :
         LET part == TrimSpace(parts[k]) IN
         Len(part) > 0 /\ part # <<".">> /\ part # <<".", ".">>})

    \* the characters os.IsPathSeparator accepts (a build that is not for Windows)
    osPathSeparators == {"/"}

    \* filepath.Ext: the suffix from the last dot of the last path element
    RECURSIVE extFrom(_, _)
    extFrom(path, k) ==
      IF k < 1 \/ path[k] \in osPathSeparators THEN <<>>
      ELSE IF path[k] = "." THEN SubSeq(path, k, Len(path))
      ELSE extFrom(path, k - 1)

    filepathExt(path) == extFrom(path, Len(path))

    \* fileExtensionRe (?i)\.[a-z0-9]{2,5}(\?|$|\\|"|/)
    matchesFileExtensionRe(content0) ==
      \E k \in 1..Len(content0) : \E n \in 2..5 :
         /\ content0[k] = "."
         /\ k + n <= Len(content0)
         /\ \A d \in 1..n : isAlnum(content0[k + d])
         /\ \/ k + n = Len(content0)
            \/ content0[k + n + 1] \in {"?", "\\", "\"", "/"}

    hasFileExtension(content0) ==
      LET ext == filepathExt(content0) IN
      \/ ByteLength(ext) > 1 /\ ByteLength(ext) <= 6
      \/ matchesFileExtensionRe(content0)

    hasValidPathStructure(pathStr) ==
      IF ByteLength(pathStr) < 2 THEN FALSE
      ELSE IF ~containsPathSeparator(pathStr) THEN FALSE
      ELSE LET separator == IF ContainsChar(pathStr, "\\") THEN "\\" ELSE "/"
               meaningfulParts == countValidPathSegments(pathStr, separator)
               lowerPath == ToLower(pathStr)
           IN IF meaningfulParts < 2 THEN FALSE
              ELSE IF hasFileExtension(pathStr) THEN TRUE
              ELSE IF meaningfulParts >= 3 THEN TRUE
              ELSE \/ \E dir \in windowsDirs : Contains(lowerPath, dir)
                   \/ HasPrefix(pathStr, <<"/">>) /\ \E dir \in unixDirs : Contains(lowerPath, dir)

    pfxHttp == <<"h","t","t","p",":","/","/">>

    pfxHttps == <<"h","t","t","p","s",":","/","/">>

    pfxFile == <<"f","i","l","e",":","/","/">>

    pfxSmb == <<"s","m","b",":","/","/">>

    pfxFtp == <<"f","t","p",":","/","/">>

    isURLPath(content0) ==
      LET lowerContent == ToLower(content0) IN
      IF HasPrefix(lowerContent, pfxHttp) \/ HasPrefix(lowerContent, pfxHttps) THEN FALSE
      ELSE IF HasPrefix(lowerContent, pfxFile)
      THEN LET pathPart == SubSeq(content0, 8, Len(content0)) IN
           ByteLength(pathPart) > 1 /\ hasValidPathStructure(pathPart)
      ELSE IF HasPrefix(lowerContent, pfxSmb)
      THEN LET pathPart == SubSeq(content0, 7, Len(content0)) IN
           ByteLength(pathPart) > 1 /\ hasValidPathStructure(pathPart)
      ELSE IF HasPrefix(lowerContent, pfxFtp)
      THEN LET pathPart == SubSeq(content0, 7, Len(content0))
               slashIndex == Index(pathPart, "/")
           IN slashIndex > 0 /\ hasValidPathStructure(SubSeq(pathPart, slashIndex + 1, Len(pathPart)))
      ELSE FALSE

    isExcludedURL(lowerContent, content0) ==
      \/ HasPrefix(lowerContent, pfxHttp) \/ HasPrefix(lowerContent, pfxHttps)
      \/ HasPrefix(lowerContent, pfxFtp) /\ ~ContainsChar(SubSeq(content0, 7, Len(content0)), "/")

    passesEarlyExclusionFilters(content0) ==
      /\ ~hasExcessiveEscapeSequences(content0)
      /\ ~isLikelyTextBlob(content0)
      /\ ~isBase64String(content0)
      /\ ~hasURLEncoding(content0)

    matchesAbsolutePathFormat(content0) ==
      isURLPath(content0) \/ isWindowsAbsolutePath(content0) \/ isUNCPath(content0) \/ isUnixAbsolutePath(content0)

    matchesWindowsPathPattern(lowerContent, content0) ==
      \E pattern \in windowsPathPatterns : Contains(lowerContent, pattern) /\ containsPathSeparator(content0)

    matchesUnixPathPattern(lowerContent) == \E pattern \in unixPathPatterns : Contains(lowerContent, pattern)

    hasCommonFileExtension(lowerContent) ==
      containsPathSeparator(lowerContent) /\ \E ext \in commonFileExtensions : HasSuffix(lowerContent, ext)
  IN
  IF ByteLength(content) < 2 THEN FALSE
  ELSE LET lowerContent == ToLower(content) IN
       IF isExcludedURL(lowerContent, content) THEN FALSE
       ELSE IF matchesAbsolutePathFormat(content) THEN TRUE
       ELSE IF ~passesEarlyExclusionFilters(content) THEN FALSE
       ELSE \/ matchesWindowsPathPattern(lowerContent, content)
            \/ matchesUnixPathPattern(lowerContent)
            \/ hasCommonFileExtension(lowerContent)

analyzePotentialFilePath(text, startIndex) ==
  LET
    \* the end of the quoted string that starts at startIndex: the index after the first
    \* occurrence of the same quote character that no backslash precedes, else the end of text
    RECURSIVE quotedEnd(_, _, _)
    quotedEnd(text0, endIndex, quote) ==
      IF endIndex >= Len(text0) THEN endIndex
      ELSE IF text0[endIndex + 1] = quote /\ text0[endIndex] # "\\" THEN endIndex + 1
      ELSE quotedEnd(text0, endIndex + 1, quote)

    RECURSIVE unquotedEnd(_, _)
    unquotedEnd(text0, endIndex) ==
      IF endIndex < Len(text0) /\ ~isDelimiter(text0[endIndex + 1]) /\ ~isWhitespace(text0[endIndex + 1])
      THEN unquotedEnd(text0, endIndex + 1) ELSE endIndex

    \* the quote test of analyzePotentialFilePath reads bytes of the UTF-8 content: the
    \* first byte of a character is a quote only for the ASCII quotes, the last byte also
    \* for U+00B4 (C2 B4), whose last byte is the code of the acute accent
    AsciiQuotes == {codeDoubleQuote, codeQuote, codeGraveAccent}

    firstByteIsQuote(c) == c \in AsciiQuotes

    lastByteIsQuote(c) == c \in AsciiQuotes \cup {codeAcuteAccent}

    \* content[1 : len(content)-1] on bytes: cutting U+00B4 leaves its first byte
    stripFirstAndLastByte(content) ==
      LET inner == SubSeq(content, 2, Len(content) - 1) IN
      IF content[Len(content)] = codeAcuteAccent THEN inner \o <<"0xC2">> ELSE inner
  IN
  IF startIndex < 0 \/ startIndex >= Len(text) THEN FALSE
  ELSE LET endIndex == IF isQuote(text[startIndex + 1])
                       THEN quotedEnd(text, startIndex + 1, text[startIndex + 1])
                       ELSE unquotedEnd(text, startIndex)
           content == SubSeq(text, startIndex + 1, endIndex)
       IN IF ByteLength(content) >= 2 /\ firstByteIsQuote(content[1]) /\ lastByteIsQuote(content[Len(content)])
          THEN Call("isLikelyFilePath", <<stripFirstAndLastByte(content)>>)
          ELSE Call("isLikelyFilePath", <<content>>)

(***************************************************************************)
(* The regular expressions stringTrimRe and trailingWhitespaceRe           *)
(***************************************************************************)
\* the leftmost position from which s is a non-empty run of tokens up to its end
RECURSIVE trailingTrimStart(_, _)
trailingTrimStart(s, k) ==
  LET
    \* s is a run of the tokens (?:\\[ntrfb]| ), possibly empty
    RECURSIVE isTrimRun(_)
    isTrimRun(s0) ==
      IF s0 = <<>> THEN TRUE
      ELSE IF s0[1] = " " THEN isTrimRun(Tail(s0))
      ELSE IF s0[1] = "\\" /\ Len(s0) >= 2 /\ s0[2] \in {"n", "t", "r", "f", "b"}
           THEN isTrimRun(SubSeq(s0, 3, Len(s0)))
      ELSE FALSE
  IN
  IF k >= Len(s) THEN Len(s)
  ELSE IF isTrimRun(SubSeq(s, k + 1, Len(s))) THEN k
  ELSE trailingTrimStart(s, k + 1)

\* trailingWhitespaceRe.ReplaceAllString(s, "")
trimTrailingWhitespace(s) == SubSeq(s, 1, trailingTrimStart(s, 0))

\* stringTrimRe.ReplaceAllString(s, "")
stringTrim(s) ==
  LET
    \* the length of the longest run of tokens s starts with
    RECURSIVE leadingTrimRun(_)
    leadingTrimRun(s0) ==
      IF s0 = <<>> THEN 0
      ELSE IF s0[1] = " " THEN 1 + leadingTrimRun(Tail(s0))
      ELSE IF s0[1] = "\\" /\ Len(s0) >= 2 /\ s0[2] \in {"n", "t", "r", "f", "b"}
           THEN 2 + leadingTrimRun(SubSeq(s0, 3, Len(s0)))
      ELSE 0
  IN
  LET lead == leadingTrimRun(s) IN
  SubSeq(s, lead + 1, trailingTrimStart(s, lead))

(***************************************************************************)
(* parseString and parseConcatenatedString                                 *)
(***************************************************************************)
\* some character from k to the end of the line satisfies the quote predicate f
RECURSIVE onLine(_, _, _)
onLine(text, k, f) ==
  IF k < Len(text) /\ text[k + 1] # "\n" /\ text[k + 1] # "\r"
  THEN applyQuoteFunc(f, text[k + 1]) \/ onLine(text, k + 1, f)
  ELSE FALSE

\* index of the first character from k on the line that satisfies f, -1 when none
RECURSIVE firstOnLine(_, _, _)
firstOnLine(text, k, f) ==
  IF k < Len(text) /\ text[k + 1] # "\n" /\ text[k + 1] # "\r"
  THEN IF applyQuoteFunc(f, text[k + 1]) THEN k ELSE firstOnLine(text, k + 1, f)
  ELSE -1

isColonOrEqual(text, n) == n < Len(text) /\ text[n + 1] \in {":", "="}

selectEndQuote(text, i) ==
  LET
    \* the four quote predicates parseString selects among, named by a tag
    QuoteFuncs == <<"isDoubleQuote", "isSingleQuote", "isDoubleQuoteLike", "isSingleQuoteLike">>

    \* the quote predicate that closes the string opened by char
    defaultEndQuote(char) ==
      IF isSingleQuote(char) THEN "isSingleQuote"
      ELSE IF isDoubleQuoteLike(char) THEN "isDoubleQuoteLike"
      ELSE IF isSingleQuoteLike(char) THEN "isSingleQuoteLike"
      ELSE "isDoubleQuote"

    \* the position k of the first quote of kind f after i that a colon or equal sign
    \* follows, -1 when the first such quote on the line is not followed by one
    quoteBeforeColon(text0, i0, f) ==
      LET k == firstOnLine(text0, i0 + 1, f) IN
      IF k # -1 /\ isColonOrEqual(text0, skipWs(text0, k + 1)) THEN k ELSE -1

    \* the search for the best end quote: [bestK, bestQuoteFunc] after trying QuoteFuncs[n..]
    RECURSIVE bestQuoteFrom(_, _, _, _)
    bestQuoteFrom(text0, i0, n, best) ==
      IF n > Len(QuoteFuncs) THEN best
      ELSE LET k == quoteBeforeColon(text0, i0, QuoteFuncs[n]) IN
           IF k # -1 /\ (best.k = -1 \/ k < best.k)
           THEN bestQuoteFrom(text0, i0, n + 1, [k |-> k, f |-> QuoteFuncs[n]])
           ELSE bestQuoteFrom(text0, i0, n + 1, best)
  IN
  LET default == defaultEndQuote(text[i + 1]) IN
  IF i + 1 < Len(text)
  THEN LET best == bestQuoteFrom(text, i, 1, [k |-> -1, f |-> default]) IN best.f
  ELSE default

\* a quote at i: is it followed by something that can follow a string
isRealEndQuoteAt(text, st, isEndQuote) ==
  LET a == skipAhead(text, st, st.i + 1)
      j == a.i
      followed == \/ j >= Len(text)
                  \/ text[j + 1] \in {",", "}", "]", ":", "=", "+"}
                  \/ isQuote(text[j + 1]) \/ isLetter(text[j + 1]) \/ isDigit(text[j + 1])
      official == applyQuoteFunc(isEndQuote, text[st.i + 1])
  IN [real |-> followed /\ (official \/ ~onLine(text, st.i + 1, isEndQuote)), ev |-> a.ev]

\* the delimiter , } ] at i inside a string: TRUE when it is content of the string
foundEndQuoteAt(text, i, isEndQuote) ==
  LET char == text[i + 1] IN
  IF char = "}" \/ char = "]" THEN onLine(text, i + 1, isEndQuote)
  ELSE LET nextIdx == skipWs(text, i + 1) IN
       IF nextIdx >= Len(text) THEN FALSE
       ELSE LET nextChar == text[nextIdx + 1] IN
            IF isQuote(nextChar)
            THEN LET k == firstOnLine(text, nextIdx + 1, "isQuote") IN
                 ~(k # -1 /\ isColonOrEqual(text, skipWs(text, k + 1)))
            ELSE IF isStartOfValue(nextChar) THEN onLine(text, i + 1, isEndQuote)
            ELSE LET RECURSIVE hasColon(_)
                     hasColon(k) ==
                       IF k < Len(text) /\ text[k + 1] # "\n" /\ text[k + 1] # "\r" /\ ~isDelimiter(text[k + 1])
                       THEN text[k + 1] \in {":", "="} \/ hasColon(k + 1)
                       ELSE FALSE
                 IN ~hasColon(nextIdx)

\* the escaped form of an ordinary character of a string
escapedChar(char) ==
  IF char = "\"" THEN <<"\\", "\"">>
  ELSE IF isControlCharacter(char) THEN controlReplacement(char)
  ELSE <<char>>

RECURSIVE parseString(_, _, _)
RECURSIVE parseConcatenatedString(_, _, _)

\* the end of parseString at a real end quote, after the quote was consumed
writeClosedString(ls) ==
  IF Call("isNumericString", <<ls.str>>) THEN Res(TRUE, MkSt(ls.i, ls.out \o ls.str, ls.ev))
  ELSE Res(TRUE, MkSt(ls.i, ls.out \o Quoted(ls.str), ls.ev))

\* the end of parseString when the loop ends without an end quote
writeOpenString(ls, trimWhitespace) ==
  LET content == IF trimWhitespace THEN stringTrim(ls.str) ELSE trimTrailingWhitespace(ls.str) IN
  Res(TRUE, MkSt(ls.i, ls.out \o Quoted(content), ls.ev))

\* parseEscape leaving the cursor on a backslash that starts no escape sequence
parseEscapeInPlace(text, ls, isFilePath) ==
  LET
    RECURSIVE hexDigitsEnd(_, _, _)
    hexDigitsEnd(text0, i, j) ==
      IF j < 4 /\ i + 1 < Len(text0) /\ isHex(text0[i + 2]) THEN hexDigitsEnd(text0, i + 1, j + 1) ELSE i
  IN
  IF isFilePath THEN [ls EXCEPT !.str = @ \o <<"\\", "\\">>, !.i = @ + 1]
  ELSE LET i == ls.i + 1 IN
       IF i < Len(text)
       THEN LET char == text[i + 1] IN
            IF char \in escapeCharacters
            THEN IF char = "u"
                 THEN LET e == hexDigitsEnd(text, i, 0)
                          hexCount == e - i
                          currentStr == ls.str \o <<"\\", "u">> \o Slice(text, i + 1, e + 1)
                      IN IF hexCount < 4
                         THEN LET cut == Len(currentStr) - (1 + hexCount + 1) IN
                              [ls EXCEPT !.i = e + 1,
                                         !.str = Slice(currentStr, 0, cut) \o <<"\\", "\\", "u">>
                                                 \o Slice(currentStr, Len(currentStr) - hexCount, Len(currentStr)),
                                         !.ev = IF SliceOK(currentStr, 0, cut) THEN @ ELSE @ \cup {"panic"}]
                         ELSE [ls EXCEPT !.i = e + 1, !.str = currentStr]
                 ELSE [ls EXCEPT !.i = i + 1, !.str = @ \o <<"\\", char>>]
            ELSE [ls EXCEPT !.str = @ \o <<"\\", "\\">>]
       ELSE [ls EXCEPT !.i = i, !.str = @ \o <<"\\", "\\">>]

\* the backslash branch of the loop of parseString
parseEscape(text, ls, isFilePath) ==
  LET
    \* up to four hex digits after the u at i: the cursor on the last one read
    RECURSIVE hexDigitsEnd(_, _, _)
    hexDigitsEnd(text0, i, j) ==
      IF j < 4 /\ i + 1 < Len(text0) /\ isHex(text0[i + 2]) THEN hexDigitsEnd(text0, i + 1, j + 1) ELSE i
  IN
  IF isFilePath THEN [ls EXCEPT !.str = @ \o <<"\\", "\\">>, !.i = @ + 1]
  ELSE LET i == ls.i + 1 IN
       IF i < Len(text)
       THEN LET char == text[i + 1] IN
            IF char \in escapeCharacters
            THEN IF char = "u"
                 THEN LET e == hexDigitsEnd(text, i, 0)
                          hexCount == e - i
                          currentStr == ls.str \o <<"\\", "u">> \o Slice(text, i + 1, e + 1)
                      IN IF hexCount < 4
                         THEN LET cut == Len(currentStr) - (1 + hexCount + 1) IN
                              [ls EXCEPT !.i = e + 1,
                                         !.str = Slice(currentStr, 0, cut) \o <<"\\", "\\", "u">>
                                                 \o Slice(currentStr, Len(currentStr) - hexCount, Len(currentStr)),
                                         !.ev = IF SliceOK(currentStr, 0, cut) THEN @ ELSE @ \cup {"panic"}]
                         ELSE [ls EXCEPT !.i = e + 1, !.str = currentStr]
                 ELSE [ls EXCEPT !.i = i + 1, !.str = @ \o <<"\\", char>>]
            ELSE [ls EXCEPT !.i = i, !.str = @ \o <<"\\", "\\">>]
       ELSE [ls EXCEPT !.i = i, !.str = @ \o <<"\\", "\\">>]

\* one iteration of the character loop of parseString on ls = [i, out, ev, str]:
\* [next |-> "continue", "break" or "return", ls |-> the state after it]
parseStringStep(text, ls, isEndQuote, isFilePath, trimWhitespace) ==
  LET currentChar == text[ls.i + 1] IN
  IF isQuote(currentChar)
  THEN LET q == isRealEndQuoteAt(text, ls, isEndQuote) IN
       IF q.real
       THEN LET c == Call("parseConcatenatedString", <<text, MkSt(ls.i + 1, ls.out, q.ev), trimWhitespace>>) IN
            IF c.ok
            THEN [next |-> "continue",
                  ls |-> [i |-> c.i, out |-> <<>>, ev |-> c.ev, str |-> ls.str \o c.out]]
            ELSE [next |-> "return",
                  ls |-> [i |-> c.i, out |-> c.out, ev |-> c.ev, str |-> ls.str]]
       ELSE [next |-> "continue",
             ls |-> [ls EXCEPT !.i = @ + 1, !.ev = q.ev,
                               !.str = @ \o (IF currentChar = "\"" THEN <<"\\", "\"">> ELSE <<currentChar>>)]]
  ELSE IF currentChar = "\\"
  THEN [next |-> "continue", ls |-> parseEscape(text, ls, isFilePath)]
  ELSE IF ~isFilePath /\ currentChar \in {",", "}", "]"} /\ ~foundEndQuoteAt(text, ls.i, isEndQuote)
  THEN [next |-> "break", ls |-> ls]
  ELSE [next |-> "continue", ls |-> [ls EXCEPT !.i = @ + 1, !.str = @ \o escapedChar(currentChar)]]

RECURSIVE parseStringLoop(_, _, _, _, _)
parseStringLoop(text, ls, isEndQuote, isFilePath, trimWhitespace) ==
  IF ls.i >= Len(text) THEN writeOpenString(ls, trimWhitespace)
  ELSE LET s == Call("parseStringStep", <<text, ls, isEndQuote, isFilePath, trimWhitespace>>) IN
       IF s.next = "return" THEN writeClosedString(s.ls)
       ELSE IF s.next = "break" THEN writeOpenString(s.ls, trimWhitespace)
       ELSE IF s.ls.i <= ls.i THEN Res(FALSE, Mark(MkSt(s.ls.i, s.ls.out, s.ls.ev), "stall"))
       ELSE parseStringLoop(text, s.ls, isEndQuote, isFilePath, trimWhitespace)

\* the parameters stopAtDelimiter and stopAtIndex of the source are never read
parseString(text, st, trimWhitespace) ==
  IF st.i >= Len(text) THEN Res(FALSE, st)
  ELSE IF ~isQuote(text[st.i + 1]) THEN Res(FALSE, st)
  ELSE LET isEndQuote == selectEndQuote(text, st.i)
           isFilePath == Call("analyzePotentialFilePath", <<text, st.i>>)
       IN parseStringLoop(text, [i |-> st.i + 1, out |-> st.out, ev |-> st.ev, str |-> <<>>],
                          isEndQuote, isFilePath, trimWhitespace)

\* one iteration of the loop of parseConcatenatedString, the cursor on a plus sign
concatStep(text, st, trimWhitespace) ==
  LET w == Call("parseWhitespaceAndSkipComments", <<text, SetI(st, st.i + 1), TRUE>>)
      stripped == stripLastOccurrence(w.out, "\"", TRUE)
      start == Len(stripped)
      r == Call("parseString", <<text, MkSt(w.i, stripped, w.ev), trimWhitespace>>)
  IN IF r.ok
     THEN IF Len(r.out) > start THEN SetOut(St(r), removeAtIndex(r.out, start, 1)) ELSE St(r)
     ELSE SetOut(St(r), insertBeforeLastWhitespace(r.out, Q))

parseConcatenatedString(text, st, trimWhitespace) ==
  LET
    RECURSIVE concatLoop(_, _, _)
    concatLoop(text0, st0, trimWhitespace0) ==
      IF st0.i < Len(text0) /\ text0[st0.i + 1] = "+"
      THEN LET n == concatStep(text0, st0, trimWhitespace0) IN
           IF n.i <= st0.i THEN Mark(n, "stall") ELSE concatLoop(text0, n, trimWhitespace0)
      ELSE st0
  IN
  LET w == Call("parseWhitespaceAndSkipComments", <<text, st, TRUE>>) IN
  IF w.i < Len(text) /\ text[w.i + 1] = "+"
  THEN Res(TRUE, concatLoop(text, St(w), trimWhitespace))
  ELSE Res(FALSE, MkSt(st.i, Slice(w.out, 0, Len(st.out)),
                       IF SliceOK(w.out, 0, Len(st.out)) THEN w.ev ELSE w.ev \cup {"panic"}))

(***************************************************************************)
(* parseUnquotedStringWithMode                                             *)
(***************************************************************************)
RECURSIVE parseValue(_, _, _)
RECURSIVE parseObject(_, _, _)
RECURSIVE parseArray(_, _, _)

RECURSIVE functionNameEnd(_, _)
functionNameEnd(text, i) ==
  IF i < Len(text) /\ isFunctionNameChar(text[i + 1]) THEN functionNameEnd(text, i + 1) ELSE i

\* two slashes follow the character at i
slashesAfter(text, i) == i + 2 < Len(text) /\ text[i + 2] = "/" /\ text[i + 3] = "/"

RECURSIVE unquotedSymbolEnd(_, _, _, _)
unquotedSymbolEnd(text, i, start, isKey) ==
  LET
    \* the loop of parseUnquotedStringWithMode leaves at i through one of its breaks
    unquotedBreaks(text0, i0, start0, isKey0) ==
      LET c == text0[i0 + 1] IN
      \/ /\ isQuote(c)
         /\ \/ isKey0
            \/ LET j == skipWs(text0, i0 + 1) IN
               j < Len(text0) /\ (isUnquotedStringDelimiter(text0[j + 1]) \/ text0[j + 1] \in {":", "="})
      \/ /\ isKey0
         /\ c \in {":", "="}
         /\ ~(/\ c = ":"
              /\ slashesAfter(text0, i0)
              /\ Slice(text0, lettersBack(text0, i0 - 1, start0) + 1, i0) \in URLProtocols)
      \/ ~isKey0 /\ c \in {":", "="} /\ ~isURLStart(text0, i0).ok /\ Call("lookAheadForColon", <<text0, i0>>)
      \/ ~isKey0 /\ c \in {"}", "]"}
      \/ c \in {"\n", "\r"} /\ (isKey0 \/ Call("lookAheadForColon", <<text0, i0>>))
      \/ /\ c = "/"
         /\ i0 + 1 < Len(text0)
         /\ text0[i0 + 2] \in {"/", "*"}
         /\ ~(/\ i0 > 0
              /\ text0[i0] = ":"
              /\ Slice(text0, lettersBack(text0, i0 - 2, start0) + 1, i0 - 1) \in URLProtocols)
  IN
  IF i < Len(text) /\ ~isUnquotedStringDelimiter(text[i + 1]) /\ ~unquotedBreaks(text, i, start, isKey)
  THEN unquotedSymbolEnd(text, i + 1, start, isKey)
  ELSE i

RECURSIVE repairedSymbol(_)
repairedSymbol(symbol) ==
  LET
    repairedSymbolChar(char) ==
      IF char = "\"" \/ isDoubleQuoteLike(char) THEN <<"\\", "\"">>
      ELSE IF char = "\\" THEN <<"\\", "\\">>
      ELSE IF char = "\n" THEN <<"\\", "n">>
      ELSE IF char = "\r" THEN <<"\\", "r">>
      ELSE IF char = "\t" THEN <<"\\", "t">>
      ELSE <<char>>
  IN
  IF symbol = <<>> THEN <<>> ELSE repairedSymbolChar(Head(symbol)) \o repairedSymbol(Tail(symbol))

\* the output of parseUnquotedStringWithMode for a symbol
writeSymbol(symbol, trimWhitespace) ==
  LET
    symUndefined == <<"u", "n", "d", "e", "f", "i", "n", "e", "d">>
  IN
  IF symbol = symUndefined THEN kwNull
  ELSE Quoted(IF trimWhitespace THEN stringTrim(repairedSymbol(symbol)) ELSE repairedSymbol(symbol))

\* line 1300 drops both results of parseValue: the cursor and the output it left
\* behind stay, the error is lost (the event that one was raised is kept)
parseUnquotedStringWithMode(text, st, isKey, trimWhitespace) ==
  LET
    \* the end of the symbol without its trailing white space
    RECURSIVE symbolTrimEnd(_, _, _)
    symbolTrimEnd(text0, end, start) ==
      IF end > start /\ isWhitespace(text0[end]) THEN symbolTrimEnd(text0, end - 1, start) ELSE end
  IN
  LET start == st.i IN
  IF start >= Len(text) THEN Res(FALSE, st)
  ELSE LET isName == isFunctionNameCharStart(text[start + 1])
           nameEnd == IF isName THEN functionNameEnd(text, start) ELSE start
           j == skipWs(text, nameEnd)
       IN IF isName /\ j < Len(text) /\ text[j + 1] = "("
          THEN LET v == Call("parseValue", <<text, SetI(st, j + 1), trimWhitespace>>)
                   i1 == IF v.i < Len(text) /\ text[v.i + 1] = ")"
                         THEN IF v.i + 1 < Len(text) /\ text[v.i + 2] = ";" THEN v.i + 2 ELSE v.i + 1
                         ELSE v.i
               IN Res(TRUE, MkSt(i1, v.out, v.ev))
          ELSE LET i == unquotedSymbolEnd(text, nameEnd, start, isKey) IN
               IF i > start
               THEN LET symbol == Slice(text, start, symbolTrimEnd(text, i, start))
                        i1 == IF i < Len(text) /\ text[i + 1] = codeDoubleQuote THEN i + 1 ELSE i
                    IN Res(TRUE, MkSt(i1, st.out \o writeSymbol(symbol, trimWhitespace), st.ev))
               ELSE Res(FALSE, st)

parseUnquotedString(text, st, trimWhitespace) ==
  Call("parseUnquotedStringWithMode", <<text, st, FALSE, trimWhitespace>>)

(***************************************************************************)
(* MongoDB data types without parentheses (parseValue and                  *)
(* parseMarkdownCodeBlock share the code)                                  *)
(***************************************************************************)
\* on failure after the name matched the cursor is left after the name and white space
parseMongoName(text, st, trimWhitespace) ==
  LET
    mongoNames ==
      { <<"O", "b", "j", "e", "c", "t", "I", "d">>,
        <<"N", "u", "m", "b", "e", "r", "L", "o", "n", "g">>,
        <<"N", "u", "m", "b", "e", "r", "I", "n", "t">>,
        <<"I", "S", "O", "D", "a", "t", "e">>,
        <<"B", "i", "n", "D", "a", "t", "a">> }
  IN
  IF st.i < Len(text) /\ isFunctionNameCharStart(text[st.i + 1])
  THEN LET j == functionNameEnd(text, st.i)
           name == Slice(text, st.i, j)
           k == skipWs(text, j)
       IN IF name \in mongoNames /\ (k >= Len(text) \/ text[k + 1] # "(")
          THEN LET innerValue == parseUnquotedString(text, Scratch(st, k), trimWhitespace)
                   val == innerValue.out
               IN IF innerValue.ok
                  THEN Res(TRUE, MkSt(innerValue.i,
                                      st.out \o Quoted(name)
                                        \o (IF HasPrefix(val, Q) /\ HasSuffix(val, Q)
                                            THEN <<"(">> \o val \o <<")">>
                                            ELSE <<"(">> \o Quoted(val) \o <<")">>),
                                      innerValue.ev))
                  ELSE Res(FALSE, MkSt(k, st.out, innerValue.ev))
          ELSE Res(FALSE, st)
  ELSE Res(FALSE, st)

(***************************************************************************)
(* parseObject                                                             *)
(***************************************************************************)
\* for skipCharacter(code) { parseWhitespaceAndSkipComments }
RECURSIVE skipRepeated(_, _, _)
skipRepeated(text, st, code) ==
  IF st.i < Len(text) /\ text[st.i + 1] = code
  THEN skipRepeated(text, St(Call("parseWhitespaceAndSkipComments", <<text, SetI(st, st.i + 1), TRUE>>)), code)
  ELSE st

\* for parseComment { parseWhitespaceAndSkipComments }
RECURSIVE skipCommentsAndWhitespace(_, _)
skipCommentsAndWhitespace(text, st) ==
  LET c == Call("parseComment", <<text, st>>) IN
  IF c.ok THEN skipCommentsAndWhitespace(text, St(Call("parseWhitespaceAndSkipComments", <<text, St(c), TRUE>>)))
  ELSE St(c)

\* for parseComment { }
RECURSIVE skipComments(_, _)
skipComments(text, st) ==
  LET c == Call("parseComment", <<text, st>>) IN
  IF c.ok THEN skipComments(text, St(c)) ELSE St(c)

\* a key parsed into its own builder: parseString, else parseUnquotedStringWithMode
\* as a key; [ok, stringProcessed, i, out, ev] with out the builder of the key
parseKey(text, st, trimWhitespace) ==
  LET s == Call("parseString", <<text, st, trimWhitespace>>) IN
  IF s.ok THEN [ok |-> TRUE, stringProcessed |-> TRUE, i |-> s.i, out |-> s.out, ev |-> s.ev]
  ELSE LET u == Call("parseUnquotedStringWithMode", <<text, St(s), TRUE, trimWhitespace>>) IN
       [ok |-> u.ok, stringProcessed |-> FALSE, i |-> u.i, out |-> u.out, ev |-> u.ev]

\* the key is a URL protocol and :// follows at i
isProtocolKey(text, key, i) ==
  key \in URLProtocols /\ i < Len(text) /\ text[i + 1] = ":" /\ slashesAfter(text, i)

\* the start of parseObject, called with i < len(text):
\* [enter |-> the object is entered, st |-> the state it is entered or left with]
openObject(text, st, trimWhitespace) ==
  IF text[st.i + 1] = "{"
  THEN [enter |-> TRUE, st |-> MkSt(st.i + 1, st.out \o <<"{">>, st.ev)]
  ELSE LET w == Call("parseWhitespaceAndSkipComments", <<text, Scratch(st, st.i), TRUE>>)
           k == Call("parseKey", <<text, St(w), trimWhitespace>>)
           key == TrimQuotes(TrimSpace(k.out))
       IN IF ~k.ok THEN [enter |-> FALSE, st |-> MkSt(st.i, st.out, k.ev)]
          ELSE IF ~k.stringProcessed /\ (key = <<>> \/ key[1] = "<" \/ Count(key, " ") > 1)
          THEN [enter |-> FALSE, st |-> MkSt(st.i, st.out, k.ev)]
          ELSE IF isProtocolKey(text, key, k.i)
          THEN [enter |-> FALSE, st |-> MkSt(st.i, st.out, k.ev)]
          ELSE LET w2 == Call("parseWhitespaceAndSkipComments", <<text, MkSt(k.i, k.out, k.ev), TRUE>>) IN
               IF w2.i < Len(text) /\ text[w2.i + 1] \in {":", "="}
               THEN [enter |-> TRUE, st |-> MkSt(st.i, st.out \o <<"{">>, w2.ev)]
               ELSE [enter |-> FALSE, st |-> MkSt(st.i, st.out, w2.ev)]

\* the output after a comma and the commas that follow it were read (lines 501-516)
moveCommaBeforeWhitespace(temp) ==
  LET
    \* only blanks and tabs from index j of temp to its end
    RECURSIVE onlyBlanksFrom(_, _)
    onlyBlanksFrom(temp0, j) ==
      IF j < Len(temp0) /\ temp0[j + 1] \in {" ", "\t"} THEN onlyBlanksFrom(temp0, j + 1) ELSE j = Len(temp0)
  IN
  IF HasSuffix(temp, <<",">>)
  THEN LET t == insertBeforeLastWhitespace(SubSeq(temp, 1, Len(temp) - 1), <<",">>)
           idx == LastIndex(t, "\n")
       IN IF idx # -1 /\ onlyBlanksFrom(t, idx + 1) THEN SubSeq(t, 1, idx + 1) ELSE t
  ELSE temp

\* the comma between two entries of an object (lines 492-539)
parseObjectComma(text, st) ==
  LET processedComma == parseCharacter(text, st, ",") IN
  IF processedComma.ok
  THEN LET w == Call("parseWhitespaceAndSkipComments", <<text, St(processedComma), TRUE>>)
           c == skipRepeated(text, St(w), ",")
       IN SetOut(c, moveCommaBeforeWhitespace(c.out))
  ELSE LET j == skipAhead(text, st, st.i)
           isNewKey == j.i < Len(text) /\ (isQuote(text[j.i + 1]) \/ isLetter(text[j.i + 1]))
       IN IF isNewKey
          THEN MkSt(st.i, insertBeforeLastWhitespace(st.out, <<",">>), j.ev)
          ELSE MkSt(st.i, insertBeforeLastWhitespace(Slice(st.out, 0, Len(st.out)), <<",">>), j.ev)

\* no key could be parsed (lines 551-570 and 593-607)
objectWithoutKey(text, st) ==
  LET out == dropDanglingComma(st.out)
      j == skipAhead(text, st, st.i)
  IN IF j.i < Len(text) /\ text[j.i + 1] = "}"
     THEN [next |-> "break", r |-> Res(TRUE, MkSt(j.i, out, j.ev))]
     ELSE IF st.i >= Len(text) \/ text[st.i + 1] \in {"}", "{", "]", "[", codeNul}
     THEN [next |-> "break", r |-> Res(TRUE, MkSt(st.i, stripLastOccurrence(out, ",", FALSE), j.ev))]
     ELSE [next |-> "return", r |-> Raise("ObjectKeyExpected", MkSt(st.i, out, j.ev))]

\* the key as written to the output (lines 573-583)
trimmedKey(key, trimWhitespace) ==
  IF trimWhitespace
  THEN IF HasPrefix(key, Q) /\ HasSuffix(key, Q)
       THEN Quoted(stringTrim(Slice(key, 1, Len(key) - 1)))
       ELSE stringTrim(key)
  ELSE key

\* parseObjectValue that writes nothing for a missing value
parseObjectValueLeftOut(text, st, trimWhitespace) ==
  LET c == skipComments(text, st)
      w == Call("parseWhitespaceAndSkipComments", <<text, c, TRUE>>)
      processedValue == Call("parseValue", <<text, St(w), trimWhitespace>>)
  IN IF processedValue.err # NoErr THEN [next |-> "return", r |-> processedValue]
     ELSE LET w2 == Call("parseWhitespaceAndSkipComments",
                         <<text, skipComments(text, St(processedValue)), TRUE>>)
          IN [next |-> "continue", r |-> Res(TRUE, St(w2))]

\* the value of an entry and what follows it (lines 665-681), the colon being settled
parseObjectValue(text, st, trimWhitespace) ==
  LET c == skipComments(text, st)
      w == Call("parseWhitespaceAndSkipComments", <<text, c, TRUE>>)
      processedValue == Call("parseValue", <<text, St(w), trimWhitespace>>)
  IN IF processedValue.err # NoErr THEN [next |-> "return", r |-> processedValue]
     ELSE LET v == IF processedValue.ok THEN St(processedValue)
                   ELSE Write(St(processedValue), kwNull)
              w2 == Call("parseWhitespaceAndSkipComments", <<text, skipComments(text, v), TRUE>>)
          IN [next |-> "continue", r |-> Res(TRUE, St(w2))]

\* the colon of an entry (lines 608-664), st the state after the key was written
parseObjectColon(text, st, trimWhitespace) ==
  LET w1 == Call("parseWhitespaceAndSkipComments", <<text, st, TRUE>>)
      w2 == skipCommentsAndWhitespace(text, St(w1))
      w3 == St(Call("parseWhitespaceAndSkipComments", <<text, w2, TRUE>>))
      colon == parseCharacter(text, w3, ":")
      j == skipCommentsAndWhitespace(text, St(skipAhead(text, w3, w3.i)))
      startsValue == /\ j.i < Len(text)
                     /\ \/ isQuote(text[j.i + 1]) \/ isLetter(text[j.i + 1]) \/ isDigit(text[j.i + 1])
                        \/ text[j.i + 1] \in {"{", "["}
      \* [processedColon, st] after lines 614-641
      a == IF colon.ok THEN [processedColon |-> TRUE, st |-> St(colon)]
           ELSE IF j.i < Len(text) /\ text[j.i + 1] = ":"
           THEN [processedColon |-> TRUE, st |-> MkSt(j.i + 1, w3.out \o <<":">>, j.ev)]
           ELSE IF startsValue
           THEN [processedColon |-> TRUE,
                 st |-> MkSt(j.i, insertBeforeLastWhitespace(w3.out, <<":">>), j.ev)]
           ELSE [processedColon |-> FALSE, st |-> MkSt(w3.i, w3.out, j.ev)]
      \* after lines 642-653
      b == IF a.processedColon
           THEN [processedColon |-> TRUE,
                 st |-> skipRepeated(text, St(Call("parseWhitespaceAndSkipComments", <<text, a.st, TRUE>>)), ":")]
           ELSE IF a.st.i < Len(text) /\ text[a.st.i + 1] = "="
           THEN [processedColon |-> TRUE,
                 st |-> MkSt(a.st.i + 1, insertBeforeLastWhitespace(a.st.out, <<":">>), a.st.ev)]
           ELSE a
      truncatedText == b.st.i >= Len(text)
  IN IF b.processedColon THEN parseObjectValue(text, b.st, trimWhitespace)
     ELSE IF truncatedText
     THEN parseObjectValue(text, SetOut(b.st, insertBeforeLastWhitespace(b.st.out, <<":">>)), trimWhitespace)
     ELSE [next |-> "return", r |-> Raise("ColonExpected", b.st)]

\* one iteration of the entry loop of parseObject:
\* [next |-> "continue", "break" or "return", r |-> the result so far]
parseObjectStep(text, st, initial, trimWhitespace) ==
  LET w == Call("parseWhitespaceAndSkipComments", <<text, st, TRUE>>) IN
  IF w.i >= Len(text) \/ text[w.i + 1] = "}" THEN [next |-> "break", r |-> Res(TRUE, St(w))]
  ELSE LET c == IF initial THEN St(w) ELSE parseObjectComma(text, St(w))
           e == St(Call("skipEllipsis", <<text, c>>))
           iKeyStart == e.i
           k == Call("parseKey", <<text, Scratch(e, e.i), trimWhitespace>>)
       IN IF ~k.ok THEN objectWithoutKey(text, MkSt(k.i, e.out, k.ev))
          ELSE LET key == trimmedKey(k.out, trimWhitespace)
                   ev == IF trimWhitespace /\ HasPrefix(k.out, Q) /\ HasSuffix(k.out, Q)
                            /\ ~SliceOK(k.out, 1, Len(k.out) - 1)
                         THEN k.ev \cup {"panic"} ELSE k.ev
               IN IF isProtocolKey(text, TrimQuotes(TrimSpace(key)), k.i)
                  THEN [next |-> "return", r |-> Res(FALSE, MkSt(iKeyStart, e.out, ev))]
                  ELSE parseObjectColon(text, MkSt(k.i, e.out \o key, ev), trimWhitespace)

parseObject(text, st, trimWhitespace) ==
  LET
    \* the end of parseObject (lines 683-691)
    closeObject(text0, st0) ==
      IF st0.i < Len(text0) /\ text0[st0.i + 1] = "}"
      THEN Res(TRUE, MkSt(st0.i + 1, st0.out \o <<"}">>, st0.ev))
      ELSE Res(TRUE, SetOut(st0, insertBeforeLastWhitespace(st0.out, <<"}">>)))

    RECURSIVE parseObjectLoop(_, _, _, _)
    parseObjectLoop(text0, st0, initial, trimWhitespace0) ==
      LET s == Call("parseObjectStep", <<text0, st0, initial, trimWhitespace0>>) IN
      IF s.next = "return" THEN s.r
      ELSE IF s.next = "break" THEN closeObject(text0, St(s.r))
      ELSE IF s.r.i <= st0.i THEN Res(FALSE, Mark(St(s.r), "stall"))
      ELSE parseObjectLoop(text0, St(s.r), FALSE, trimWhitespace0)
  IN
  IF st.i >= Len(text) THEN Res(FALSE, st)
  ELSE LET o == openObject(text, st, trimWhitespace) IN
       IF ~o.enter THEN Res(FALSE, o.st)
       ELSE LET w == Call("parseWhitespaceAndSkipComments", <<text, o.st, TRUE>>)
                c == skipCharacter(text, St(w), ",")
                b == IF c.ok THEN St(Call("parseWhitespaceAndSkipComments", <<text, St(c), TRUE>>)) ELSE St(c)
            IN parseObjectLoop(text, b, TRUE, trimWhitespace)

(***************************************************************************)
(* parseArray                                                              *)
(***************************************************************************)
\* the loop over the commas that follow a comma in an array (lines 739-766)
RECURSIVE parseExtraCommas(_, _)
parseExtraCommas(text, st) ==
  LET w == Call("parseWhitespaceAndSkipComments", <<text, st, TRUE>>)
      comma == parseCharacter(text, St(w), ",")
  IN IF comma.ok
     THEN LET outputStr == comma.out
              lastCommaIdx == LastIndex(outputStr, ",")
              j == skipAhead(text, St(comma), comma.i)
              newOutput == IF j.i < Len(text) /\ text[j.i + 1] = "]"
                           THEN SubSeq(outputStr, 1, lastCommaIdx)
                           ELSE SubSeq(outputStr, 1, lastCommaIdx) \o kwNull
                                \o SubSeq(outputStr, lastCommaIdx + 1, Len(outputStr))
          IN parseExtraCommas(text, MkSt(comma.i, newOutput, j.ev))
     ELSE MkSt(st.i, Slice(comma.out, 0, Len(st.out)),
               IF SliceOK(comma.out, 0, Len(st.out)) THEN comma.ev ELSE comma.ev \cup {"panic"})

\* the comma between two elements of an array (lines 704-767)
parseArrayComma(text, st) ==
  LET w == Call("parseWhitespaceAndSkipComments", <<text, st, TRUE>>)
      isNewValue == /\ w.i < Len(text)
                    /\ LET char == text[w.i + 1] IN
                       \/ isQuote(char) \/ isDigit(char) \/ isLetter(char)
                       \/ char \in {"{", "[", "-", "+"}
      processedComma == parseCharacter(text, St(w), ",")
  IN IF processedComma.ok THEN parseExtraCommas(text, St(processedComma))
     ELSE IF isNewValue THEN SetOut(St(w), insertBeforeLastWhitespace(w.out, <<",">>))
     ELSE MkSt(st.i, insertBeforeLastWhitespace(Slice(w.out, 0, Len(st.out)), <<",">>),
               IF SliceOK(w.out, 0, Len(st.out)) THEN w.ev ELSE w.ev \cup {"panic"})

\* the element at the cursor is a key of an enclosing object, or its closing brace
\* (lines 778-796): [isOuterElement, ev]
lookAheadForOuterElement(text, st, trimWhitespace) ==
  LET j == skipAhead(text, st, st.i) IN
  IF j.i < Len(text)
  THEN LET k == Call("parseKey", <<text, Scratch(St(j), j.i), trimWhitespace>>) IN
       IF k.ok
       THEN LET iTemp == skipAhead(text, MkSt(k.i, k.out, k.ev), k.i) IN
            [isOuterElement |-> iTemp.i < Len(text) /\ text[iTemp.i + 1] \in {":", "="},
             ev |-> iTemp.ev]
       ELSE [isOuterElement |-> text[j.i + 1] = "}", ev |-> k.ev]
  ELSE [isOuterElement |-> FALSE, ev |-> j.ev]

\* one iteration of the element loop of parseArray, entered with the cursor before
\* the end of the text and not on the closing bracket
parseArrayStep(text, st, initial, trimWhitespace) ==
  LET c == IF initial
           THEN IF text[st.i + 1] = "," THEN MkSt(st.i + 1, st.out \o kwNull \o <<",">>, st.ev) ELSE st
           ELSE parseArrayComma(text, st)
      w == Call("parseWhitespaceAndSkipComments", <<text, c, TRUE>>)
      e == St(Call("skipEllipsis", <<text, St(w)>>))
      outer == lookAheadForOuterElement(text, e, trimWhitespace)
  IN IF outer.isOuterElement
     THEN [next |-> "break", r |-> Res(TRUE, MkSt(e.i, dropDanglingComma(e.out), outer.ev))]
     ELSE LET processedValue == Call("parseValue", <<text, MkSt(e.i, e.out, outer.ev), trimWhitespace>>) IN
          IF processedValue.err # NoErr THEN [next |-> "return", r |-> processedValue]
          ELSE IF ~processedValue.ok
          THEN [next |-> "break",
                r |-> Res(TRUE, SetOut(St(processedValue), dropDanglingComma(processedValue.out)))]
          ELSE [next |-> "continue", r |-> processedValue]

parseArray(text, st, trimWhitespace) ==
  LET
    \* the end of parseArray (lines 829-837)
    closeArray(text0, st0) ==
      IF st0.i < Len(text0) /\ text0[st0.i + 1] = "]"
      THEN Res(TRUE, MkSt(st0.i + 1, st0.out \o <<"]">>, st0.ev))
      ELSE Res(TRUE, SetOut(st0, insertBeforeLastWhitespace(st0.out, <<"]">>)))

    RECURSIVE parseArrayLoop(_, _, _, _)
    parseArrayLoop(text0, st0, initial, trimWhitespace0) ==
      IF st0.i < Len(text0) /\ text0[st0.i + 1] # "]"
      THEN LET s == Call("parseArrayStep", <<text0, st0, initial, trimWhitespace0>>) IN
           IF s.next = "return" THEN s.r
           ELSE IF s.next = "break" THEN closeArray(text0, St(s.r))
           ELSE IF s.r.i <= st0.i THEN Res(FALSE, Mark(St(s.r), "stall"))
           ELSE parseArrayLoop(text0, St(s.r), FALSE, trimWhitespace0)
      ELSE closeArray(text0, st0)
  IN
  IF st.i >= Len(text) THEN Res(FALSE, st)
  ELSE IF text[st.i + 1] = "["
  THEN LET w == Call("parseWhitespaceAndSkipComments", <<text, MkSt(st.i + 1, st.out \o <<"[">>, st.ev), TRUE>>) IN
       parseArrayLoop(text, St(w), TRUE, trimWhitespace)
  ELSE Res(FALSE, st)

(***************************************************************************)
(* parseValue                                                              *)
(***************************************************************************)
\* the scalar alternatives of parseValue, tried in the order of lines 261-270
parseScalar(text, st, trimWhitespace) ==
  LET stringProcessed == Call("parseString", <<text, st, trimWhitespace>>) IN
  IF stringProcessed.ok THEN stringProcessed
  ELSE LET number == Call("parseNumber", <<text, St(stringProcessed)>>) IN
       IF number.ok THEN number
       ELSE LET keyword == Call("parseKeywords", <<text, St(number)>>) IN
            IF keyword.ok THEN keyword
            ELSE LET unquoted == parseUnquotedString(text, St(keyword), trimWhitespace) IN
                 IF unquoted.ok THEN unquoted
                 ELSE Call("parseRegex", <<text, St(unquoted)>>)

\* the event of an alternative of parseValue starting on the output out when
\* the output was saved before the failed attempt
Unrestored(out, saved) == IF out # saved THEN {"unrestored"} ELSE {}

\* the event of a failed attempt that left the output out, other than the saved one
Backtracked(out, saved) == IF out # saved THEN {"backtracked"} ELSE {}

\* the output left as the failed object attempt left it
keepOutput(outputStr, oBeforeObj) == outputStr

\* the output after the failed object attempt, cut back to the saved length
restoreOutput(outputStr, oBeforeObj) ==
  IF Len(outputStr) > oBeforeObj THEN SubSeq(outputStr, 1, oBeforeObj) ELSE outputStr

parseValue(text, st, trimWhitespace) ==
  LET w == Call("parseWhitespaceAndSkipComments", <<text, st, TRUE>>)
      iBeforeObj == w.i
      oBeforeObj == Len(w.out)
      processedObj == Call("parseObject", <<text, St(w), trimWhitespace>>)
  IN IF processedObj.err # NoErr THEN processedObj
     ELSE IF processedObj.ok
     THEN Res(TRUE, St(Call("parseWhitespaceAndSkipComments", <<text, St(processedObj), TRUE>>)))
     ELSE LET outputStr == processedObj.out
              restored == restoreOutput(outputStr, oBeforeObj)
              oBeforeMongo == Len(restored)
              mongo == Call("parseMongoName", <<text, MkSt(iBeforeObj, restored,
                                                          processedObj.ev \cup Unrestored(restored, w.out)
                                                            \cup Backtracked(outputStr, w.out)),
                                                trimWhitespace>>)
          IN IF mongo.ok THEN mongo
             ELSE LET processed == Call("parseArray", <<text, MkSt(iBeforeObj, SubSeq(outputStr, 1, oBeforeMongo),
                                                         mongo.ev \cup Unrestored(SubSeq(outputStr, 1, oBeforeMongo),
                                                                                  restored)),
                                                  trimWhitespace>>)
                  IN IF processed.err # NoErr THEN processed
                     ELSE LET p == IF processed.ok THEN processed
                                   ELSE parseScalar(text, St(processed), trimWhitespace)
                              w2 == Call("parseWhitespaceAndSkipComments", <<text, St(p), TRUE>>)
                          IN [ok |-> p.ok, err |-> NoErr, i |-> w2.i, out |-> w2.out, ev |-> w2.ev]

(***************************************************************************)
(* Markdown code fences                                                    *)
(***************************************************************************)
fence == <<codeGraveAccent, codeGraveAccent, codeGraveAccent>>

openingBlocks == <<fence, <<"[">> \o fence, <<"{">> \o fence>>

closingBlocks == <<fence, fence \o <<"]">>, fence \o <<"}">>>>

skipMarkdownCodeBlock(text, st, blocks) ==
  LET
    \* the first block of blocks[n..] that the text has at i: the cursor after it, -1 when none
    RECURSIVE matchBlock(_, _, _, _)
    matchBlock(text0, i, blocks0, n) ==
      IF n > Len(blocks0) THEN -1
      ELSE LET end == i + Len(blocks0[n]) IN
           IF end <= Len(text0) /\ SubSeq(text0, i + 1, end) = blocks0[n] THEN end
           ELSE matchBlock(text0, i, blocks0, n + 1)
  IN
  LET w == parseWhitespace(text, st, TRUE)
      end == matchBlock(text, w.i, blocks, 1)
  IN IF end # -1 THEN Res(TRUE, SetI(St(w), end)) ELSE Res(FALSE, St(w))

parseMarkdownCodeBlock(text, st, blocks, trimWhitespace) ==
  LET skipped == skipMarkdownCodeBlock(text, st, blocks) IN
  IF skipped.ok
  THEN LET mongo == Call("parseMongoName", <<text, St(skipped), trimWhitespace>>) IN
       IF mongo.ok THEN mongo
       ELSE LET language == IF skipped.i < Len(text) /\ isFunctionNameCharStart(text[skipped.i + 1])
                            THEN functionNameEnd(text, mongo.i) ELSE mongo.i
                end == whitespaceEnd(text, language, TRUE)
            IN Res(TRUE, MkSt(end, mongo.out \o repairWhitespace(SubSeq(text, language + 1, end)), mongo.ev))
  ELSE skipped

(***************************************************************************)
(* JSONRepair                                                              *)
(***************************************************************************)
\* JSONRepair without its check for the empty text: the parsers run on it
JSONRepairUnchecked(text, trimWhitespace) ==
  LET opened == Call("parseMarkdownCodeBlock", <<text, MkSt(0, <<>>, {}), openingBlocks, trimWhitespace>>)
      success == Call("parseValue", <<text, St(opened), trimWhitespace>>)
  IN IF success.err # NoErr
     THEN [ok |-> FALSE, err |-> success.err, i |-> success.i, out |-> <<>>,
           ev |-> success.ev, ran |-> TRUE]
     ELSE IF ~success.ok
     THEN [ok |-> FALSE, err |-> [kind |-> "UnexpectedEnd", pos |-> Len(text)], i |-> success.i,
           out |-> <<>>, ev |-> success.ev, ran |-> TRUE]
     ELSE LET closed == Call("parseMarkdownCodeBlock", <<text, St(success), closingBlocks, trimWhitespace>>) IN
          [ok |-> TRUE, err |-> NoErr, i |-> closed.i, out |-> closed.out, ev |-> closed.ev,
           ran |-> TRUE]

\* the call as a whole: [ok, err, i, out, ev]; ran tells whether a parser ran
JSONRepairOp(text, trimWhitespace) ==
  IF Len(text) = 0
  THEN [ok |-> FALSE, err |-> [kind |-> "UnexpectedEnd", pos |-> 0], i |-> 0, out |-> <<>>,
        ev |-> {}, ran |-> FALSE]
  ELSE LET opened == Call("parseMarkdownCodeBlock", <<text, MkSt(0, <<>>, {}), openingBlocks, trimWhitespace>>)
           success == Call("parseValue", <<text, St(opened), trimWhitespace>>)
       IN IF success.err # NoErr
          THEN [ok |-> FALSE, err |-> success.err, i |-> success.i, out |-> <<>>,
                ev |-> success.ev, ran |-> TRUE]
          ELSE IF ~success.ok
          THEN [ok |-> FALSE, err |-> [kind |-> "UnexpectedEnd", pos |-> Len(text)], i |-> success.i,
                out |-> <<>>, ev |-> success.ev, ran |-> TRUE]
          ELSE LET closed == Call("parseMarkdownCodeBlock", <<text, St(success), closingBlocks, trimWhitespace>>) IN
               [ok |-> TRUE, err |-> NoErr, i |-> closed.i, out |-> closed.out, ev |-> closed.ev,
                ran |-> TRUE]

(***************************************************************************)
(* Function calls. Call(fn, args) is the call of the function fn of the    *)
(* source on the arguments args. The calls between the parsers go through  *)
(* this one recursive operator, which keeps the expression tree that TLC   *)
(* builds for its statistics linear in the size of the module.             *)
(***************************************************************************)
Call(fn, args) ==
  CASE fn = "parseWhitespaceAndSkipComments" -> parseWhitespaceAndSkipComments(args[1], args[2], args[3])
    [] fn = "parseString" -> parseString(args[1], args[2], args[3])
    [] fn = "parseConcatenatedString" -> parseConcatenatedString(args[1], args[2], args[3])
    [] fn = "parseUnquotedStringWithMode" -> parseUnquotedStringWithMode(args[1], args[2], args[3], args[4])
    [] fn = "parseValue" -> parseValue(args[1], args[2], args[3])
    [] fn = "parseObject" -> parseObject(args[1], args[2], args[3])
    [] fn = "parseArray" -> parseArray(args[1], args[2], args[3])
    [] fn = "parseKey" -> parseKey(args[1], args[2], args[3])
    [] fn = "parseNumber" -> parseNumber(args[1], args[2])
    [] fn = "parseKeywords" -> parseKeywords(args[1], args[2])
    [] fn = "parseRegex" -> parseRegex(args[1], args[2])
    [] fn = "parseMongoName" -> parseMongoName(args[1], args[2], args[3])
    [] fn = "analyzePotentialFilePath" -> analyzePotentialFilePath(args[1], args[2])
    [] fn = "lookAheadForColon" -> lookAheadForColon(args[1], args[2])
    [] fn = "parseComment" -> parseComment(args[1], args[2])
    [] fn = "isNumericString" -> isNumericString(args[1])
    [] fn = "isLikelyFilePath" -> isLikelyFilePath(args[1])
    [] fn = "parseMarkdownCodeBlock" -> parseMarkdownCodeBlock(args[1], args[2], args[3], args[4])
    [] fn = "skipEllipsis" -> skipEllipsis(args[1], args[2])
    [] fn = "parseStringStep" -> parseStringStep(args[1], args[2], args[3], args[4], args[5])
    [] fn = "parseObjectStep" -> parseObjectStep(args[1], args[2], args[3], args[4])
    [] fn = "parseArrayStep" -> parseArrayStep(args[1], args[2], args[3], args[4])
    [] fn = "JSONRepairOp" -> JSONRepairOp(args[1], args[2])

(***************************************************************************)
(* The call: one JSONRepair(text, trimWhitespace) from entry to return     *)
(***************************************************************************)
\* longest input text of the exhaustive families
MaxLen == 4

\* the characters of structure: containers, keys, separators, comments, a call
Alphabet == {"{", "}", "[", "\"", ":", ",", "a", "(", "/", "*", " "}

\* the characters of scalars: quotes, escapes, numbers
ScalarAlphabet == {"\"", "'", "\\", "u", "1", "-", ".", "e", "/"}

\* every text of at most n characters over the alphabet A
Words(A, n) == UNION {[1..k -> A] : k \in 0..n}

Texts == Words(Alphabet, MaxLen) \cup Words(ScalarAlphabet, MaxLen)

\* no formatted text
NoData == [json |-> <<>>, indent |-> "", trimmed |-> FALSE, sorted |-> FALSE]

\* no JSONResponse has been returned
NoResponse == [Success |-> FALSE, Data |-> NoData, Error |-> "", Repaired |-> FALSE]

\* activeTabId of a store without an active tab; the ids of tabs are 1, 2, ...
null == 0

\* no call has been made to the tab store
NoTabCall == [op |-> "none", id |-> null, before |-> <<>>]

\* the tab store as defineStore sets it up: no tab, no active tab
useAppStore ==
  /\ tabs = <<>>
  /\ activeTabId = null
  /\ nextTabId = 1
  /\ tabCall = NoTabCall

\* a call about to be made: the arguments are chosen, nothing is returned yet
Ready(texts, trims) ==
  /\ callText \in texts
  /\ callTrim \in trims
  /\ pc = "ready"
  /\ retText = <<>>
  /\ retErr = NoErr
  /\ cursor = 0
  /\ events = {}
  /\ callIndent = "4"
  /\ callKeepOrder = TRUE
  /\ response = NoResponse
  /\ repairCalls = 0
  /\ useAppStore

Init == Ready(Texts, BOOLEAN)

\* the whole call; on an error the returned text is "", "parsed" records that
\* the parsers were entered
JSONRepair ==
  /\ pc = "ready"
  /\ \E r \in {Call("JSONRepairOp", <<callText, callTrim>>)} :
     /\ retText' = r.out
     /\ retErr' = r.err
     /\ cursor' = r.i
     /\ events' = IF r.ran THEN r.ev \cup {"parsed"} ELSE r.ev
  /\ pc' = "done"
  /\ UNCHANGED <<callText, callTrim, callIndent, callKeepOrder, response,
                 repairCalls, storeVars>>

Next == JSONRepair

Spec == Init /\ [][Next]_vars

(***************************************************************************)
(* Strict JSON (RFC 8259): the grammar a returned text is held against.    *)
(* A value is [kind, s, kids]: kind is "string", "number", "literal",      *)
(* "array", "object", "member" (a key with its value) or "invalid"; s is   *)
(* the raw text of a scalar or of a key; kids are the elements, the        *)
(* members, or the value of a member.                                      *)
(***************************************************************************)
jsonWhitespace == {" ", "\n", "\t", "\r"}

\* U+0000..U+001F may not appear unescaped in a string
jsonControl ==
  {"\n", "\t", "\r", "\f", "U+0000", "U+0001", "U+0002", "U+0003", "U+0004", "U+0005",
   "U+0006", "U+0007", "U+0008", "U+0009", "U+000A", "U+000B", "U+000C", "U+000D",
   "U+000E", "U+000F", "U+0010", "U+0011", "U+0012", "U+0013", "U+0014", "U+0015",
   "U+0016", "U+0017", "U+0018", "U+0019", "U+001A", "U+001B", "U+001C", "U+001D",
   "U+001E", "U+001F"}

jsonLiterals == {<<"t","r","u","e">>, <<"f","a","l","s","e">>, <<"n","u","l","l">>}

JV(kind, s, kids) == [kind |-> kind, s |-> s, kids |-> kids]

\* no value: end is -1
NoJSON == [end |-> -1, val |-> JV("invalid", <<>>, <<>>)]

RECURSIVE jsonSkip(_, _)
jsonSkip(t, i) == IF i < Len(t) /\ t[i + 1] \in jsonWhitespace THEN jsonSkip(t, i + 1) ELSE i

RECURSIVE jsonDigits(_, _)
jsonDigits(t, i) == IF i < Len(t) /\ isDigit(t[i + 1]) THEN jsonDigits(t, i + 1) ELSE i

\* the cursor after the number that starts at i, or -1:
\* -? (0 | [1-9][0-9]*) (. [0-9]+)? ([eE] [+-]? [0-9]+)?
jsonNumberEnd(t, i) ==
  LET int0 == IF i < Len(t) /\ t[i + 1] = "-" THEN i + 1 ELSE i
      int1 == IF int0 < Len(t) /\ t[int0 + 1] = "0" THEN int0 + 1 ELSE jsonDigits(t, int0)
      frac == IF int1 < Len(t) /\ t[int1 + 1] = "." THEN jsonDigits(t, int1 + 1) ELSE int1
      exp0 == IF frac < Len(t) /\ t[frac + 1] \in {"e", "E"}
              THEN IF frac + 1 < Len(t) /\ t[frac + 2] \in {"+", "-"} THEN frac + 2 ELSE frac + 1
              ELSE frac
      exp1 == IF exp0 > frac THEN jsonDigits(t, exp0) ELSE frac
  IN IF int1 > int0 /\ (frac = int1 \/ frac > int1 + 1) /\ (exp0 = frac \/ exp1 > exp0)
     THEN exp1 ELSE -1

\* the cursor after the closing quote of the string whose content starts at i, or -1
RECURSIVE jsonStringEnd(_, _)
jsonStringEnd(t, i) ==
  IF i >= Len(t) THEN -1
  ELSE LET c == t[i + 1] IN
       IF c = "\"" THEN i + 1
       ELSE IF c \in jsonControl THEN -1
       ELSE IF c # "\\" THEN jsonStringEnd(t, i + 1)
       ELSE IF i + 1 >= Len(t) THEN -1
       ELSE IF t[i + 2] \in {"\"", "\\", "/", "b", "f", "n", "r", "t"} THEN jsonStringEnd(t, i + 2)
       ELSE IF t[i + 2] = "u" /\ i + 6 <= Len(t) /\ (\A k \in 3..6 : isHex(t[i + k]))
       THEN jsonStringEnd(t, i + 6)
       ELSE -1

RECURSIVE jsonValue(_, _), jsonElements(_, _, _), jsonMembers(_, _, _)
\* the value that starts at i: [end, val]
jsonValue(t, i) ==
  IF i >= Len(t) THEN NoJSON
  ELSE LET c == t[i + 1] IN
       IF c = "\""
       THEN LET e == jsonStringEnd(t, i + 1) IN
            IF e = -1 THEN NoJSON ELSE [end |-> e, val |-> JV("string", SubSeq(t, i + 2, e - 1), <<>>)]
       ELSE IF c = "-" \/ isDigit(c)
       THEN LET e == jsonNumberEnd(t, i) IN
            IF e = -1 THEN NoJSON ELSE [end |-> e, val |-> JV("number", SubSeq(t, i + 1, e), <<>>)]
       ELSE IF c = "["
       THEN LET j == jsonSkip(t, i + 1) IN
            IF j < Len(t) /\ t[j + 1] = "]" THEN [end |-> j + 1, val |-> JV("array", <<>>, <<>>)]
            ELSE jsonElements(t, j, <<>>)
       ELSE IF c = "{"
       THEN LET j == jsonSkip(t, i + 1) IN
            IF j < Len(t) /\ t[j + 1] = "}" THEN [end |-> j + 1, val |-> JV("object", <<>>, <<>>)]
            ELSE jsonMembers(t, j, <<>>)
       ELSE IF \E w \in jsonLiterals : i + Len(w) <= Len(t) /\ SubSeq(t, i + 1, i + Len(w)) = w
       THEN LET w == CHOOSE w \in jsonLiterals : i + Len(w) <= Len(t) /\ SubSeq(t, i + 1, i + Len(w)) = w
            IN [end |-> i + Len(w), val |-> JV("literal", w, <<>>)]
       ELSE NoJSON

\* the elements of an array from i on, acc holding those before: up to the ]
jsonElements(t, i, acc) ==
  LET v == jsonValue(t, i) IN
  IF v.end = -1 THEN NoJSON
  ELSE LET j == jsonSkip(t, v.end) IN
       IF j < Len(t) /\ t[j + 1] = ","
       THEN jsonElements(t, jsonSkip(t, j + 1), Append(acc, v.val))
       ELSE IF j < Len(t) /\ t[j + 1] = "]"
       THEN [end |-> j + 1, val |-> JV("array", <<>>, Append(acc, v.val))]
       ELSE NoJSON

\* the members of an object from i on, acc holding those before: up to the }
jsonMembers(t, i, acc) ==
  IF i >= Len(t) \/ t[i + 1] # "\"" THEN NoJSON
  ELSE LET k == jsonStringEnd(t, i + 1) IN
       IF k = -1 THEN NoJSON
       ELSE LET colon == jsonSkip(t, k) IN
            IF colon >= Len(t) \/ t[colon + 1] # ":" THEN NoJSON
            ELSE LET v == jsonValue(t, jsonSkip(t, colon + 1)) IN
                 IF v.end = -1 THEN NoJSON
                 ELSE LET member == JV("member", SubSeq(t, i + 2, k - 1), <<v.val>>)
                          j == jsonSkip(t, v.end)
                      IN IF j < Len(t) /\ t[j + 1] = ","
                         THEN jsonMembers(t, jsonSkip(t, j + 1), Append(acc, member))
                         ELSE IF j < Len(t) /\ t[j + 1] = "}"
                         THEN [end |-> j + 1, val |-> JV("object", <<>>, Append(acc, member))]
                         ELSE NoJSON

\* the JSON value a whole text denotes, of kind "invalid" if it is not strict JSON
parseJSON(t) ==
  LET v == jsonValue(t, jsonSkip(t, 0)) IN
  IF v.end # -1 /\ jsonSkip(t, v.end) = Len(t) THEN v.val ELSE NoJSON.val

ValidJSON(t) == parseJSON(t).kind # "invalid"

(***************************************************************************)
(* Properties of every call (specification Spec)                           *)
(***************************************************************************)
ErrorKinds == {"UnexpectedEnd", "ObjectKeyExpected", "ColonExpected"}

Returned == pc = "done"

Succeeded == Returned /\ retErr = NoErr

\* C1: whenever JSONRepair returns without an error, for either value of
\* trimWhitespace, the returned text is a strict JSON document.
C1_SuccessIsStrictJSON == Succeeded => ValidJSON(retText)

\* C3: JSONRepair never panics: no index or slice of the input or of an
\* output buffer is taken outside its bounds, and the call returns either a
\* text without an error or the empty text with a typed error.
C3_NeverPanics ==
  Returned =>
    /\ "panic" \notin events
    /\ \/ retErr = NoErr
       \/ retErr.kind \in ErrorKinds /\ retText = <<>>

\* a string that ends inside a \u escape: the escape is read up to the end of the text only
C3_TruncatedEscape ==
  /\ Returned
  /\ callText = <<"\"", "\\", "u", "1">>
  /\ retErr = NoErr
  /\ "panic" \notin events

\* C4: JSONRepair terminates: every iteration of the loops of parseObject,
\* parseArray, parseString and of the whitespace/comment skipper advances
\* the cursor or leaves the loop, and the cursor never passes the end.
C4_EveryIterationAdvances ==
  Returned => "stall" \notin events /\ cursor <= Len(callText)

\* an array whose element loop ran twice and then ended with the text
C4_LoopRanToTheEnd ==
  /\ Returned
  /\ callText = <<"[", "a", ",", "a">>
  /\ retText = <<"[", "\"", "a", "\"", ",", "\"", "a", "\"", "]">>
  /\ cursor = Len(callText)
  /\ "stall" \notin events

\* C5: the empty text is answered with UnexpectedEnd at position 0 and an
\* empty output, and no parser runs on it.
C5_EmptyText ==
  Returned /\ callText = <<>> =>
    /\ retErr = [kind |-> "UnexpectedEnd", pos |-> 0]
    /\ retText = <<>>
    /\ "parsed" \notin events

C5_EmptyTextReturned == Returned /\ callText = <<>> /\ retErr.kind = "UnexpectedEnd"

\* C6: an error raised by a nested parser at any depth is what JSONRepair
\* returns, with an empty text: no call succeeds after a parser raised one.
C6_RaisedErrorIsReturned ==
  Returned /\ "raised" \in events => retErr.kind \in ErrorKinds \ {"UnexpectedEnd"} /\ retText = <<>>

(***************************************************************************)
(* Texts built from parts                                                  *)
(***************************************************************************)
\* every concatenation of at most n of the atoms
RECURSIVE Concats(_, _)
Concats(atoms, n) ==
  IF n = 0 THEN {<<>>}
  ELSE LET shorter == Concats(atoms, n - 1) IN shorter \cup {s \o a : s \in shorter, a \in atoms}

\* a text without its whitespace characters
Compact(s) == SelectSeq(s, LAMBDA c : c \notin jsonWhitespace)

\* the number of commas of a text
Commas(s) == Len(SelectSeq(s, LAMBDA c : c = ","))

kwTrue == <<"t", "r", "u", "e">>

\* values the repair writes back as they are, none holding whitespace or a comma
EntryValues == {<<"1">>, Quoted(<<"x">>), kwTrue, <<"[", "1", "]">>, <<"{", "}">>}

\* {"a":v
FirstEntry(v) == <<"{">> \o Quoted(<<"a">>) \o <<":">> \o v

\* "b":2}
SecondEntry == Quoted(<<"b">>) \o <<":", "2", "}">>

(***************************************************************************)
(* Texts that are strict JSON already (specification SpecValid)            *)
(***************************************************************************)
\* nesting depth of the documents
ValidDepth == 2

ValidScalars == {<<"1">>, Quoted(<<"a">>), Quoted(<<"1">>), kwTrue, kwNull}

ValidKeys == {Quoted(<<"a">>), Quoted(<<"1">>)}

\* scalars, one-element arrays and one-member objects nested to depth d, pairs of scalars
RECURSIVE ValidDocs(_)
ValidDocs(d) ==
  IF d = 0 THEN ValidScalars
  ELSE LET inner == ValidDocs(d - 1) IN
       inner
       \cup {<<"[">> \o v \o <<"]">> : v \in inner}
       \cup {<<"{">> \o k \o <<":">> \o v \o <<"}">> : k \in ValidKeys, v \in inner}
       \cup {<<"[">> \o v \o <<",", " ">> \o w \o <<"]">> : v \in ValidScalars, w \in ValidScalars}

InitValid == Ready(ValidDocs(ValidDepth), {FALSE})

SpecValid == InitValid /\ [][Next]_vars

\* C2: a text that is strict JSON already is repaired, with trimWhitespace
\* false, to a text that denotes the same JSON value: same nesting, same keys,
\* every scalar of the same type and value.
C2_ValidTextKeepsItsValue ==
  Returned /\ ValidJSON(callText) /\ ~callTrim =>
    retErr = NoErr /\ parseJSON(retText) = parseJSON(callText)

(***************************************************************************)
(* Objects with surplus commas (specification SpecCommas)                  *)
(***************************************************************************)
\* most pieces of whitespace and comments after a trailing comma
MaxGap == 4

\* most commas and spaces between two entries
MaxRun == 4

Gaps == Concats({<<" ">>, <<"\n">>, <<"/", "*", "c", "*", "/">>}, MaxGap)

CommaRuns == {r \in Concats({<<",">>, <<" ">>}, MaxRun) : Commas(r) >= 2}

\* {"a":v, gap }
TrailingComma(v, g) == FirstEntry(v) \o <<",">> \o g \o <<"}">>

\* {"a":v run "b":2}
RepeatedCommas(v, r) == FirstEntry(v) \o r \o SecondEntry

CommaTexts ==
  {TrailingComma(v, g) : v \in EntryValues, g \in Gaps}
  \cup {RepeatedCommas(v, r) : v \in EntryValues, r \in CommaRuns}

InitCommas == Ready(CommaTexts, BOOLEAN)

SpecCommas == InitCommas /\ [][Next]_vars

\* C7: in an object a comma followed only by whitespace and comments and then
\* the closing brace is removed, and a run of commas between two entries is
\* collapsed to one; {"a":1,} is returned as exactly {"a":1}.
C7_SurplusCommasAreRemoved ==
  Returned =>
    /\ \A v \in EntryValues, g \in Gaps :
         callText = TrailingComma(v, g) =>
           retErr = NoErr /\ Compact(retText) = FirstEntry(v) \o <<"}">>
    /\ \A v \in EntryValues, r \in CommaRuns :
         callText = RepeatedCommas(v, r) =>
           retErr = NoErr /\ Compact(retText) = FirstEntry(v) \o <<",">> \o SecondEntry
    /\ callText = TrailingComma(<<"1">>, <<>>) => retText = FirstEntry(<<"1">>) \o <<"}">>

(***************************************************************************)
(* Objects with an unquoted key (specification SpecKeys)                   *)
(***************************************************************************)
\* longest key of the exhaustive part of the family
MaxKeyLen == 3

\* characters that start an identifier, and characters that continue one
KeyStart == {"a", "_", "$"}

KeyChars == KeyStart \cup {"1"}

\* identifiers that are also words of JavaScript
ReservedWords == {<<"u", "n", "d", "e", "f", "i", "n", "e", "d">>, kwNull, kwTrue}

Identifiers ==
  {w \in Words(KeyChars, MaxKeyLen) : w # <<>> /\ w[1] \in KeyStart} \cup ReservedWords

\* {key:v}
UnquotedKey(key, v) == <<"{">> \o key \o <<":">> \o v \o <<"}">>

KeyTexts == {UnquotedKey(key, v) : key \in Identifiers, v \in EntryValues}

InitKeys == Ready(KeyTexts, BOOLEAN)

SpecKeys == InitKeys /\ [][Next]_vars

\* C8: an unquoted key made of identifier characters is written as a
\* double-quoted key of the same characters, and the value of the entry is
\* kept; {a:1} is returned as exactly {"a":1}.
C8_UnquotedKeyIsQuoted ==
  Returned =>
    \A key \in Identifiers, v \in EntryValues :
      callText = UnquotedKey(key, v) =>
        retErr = NoErr /\ retText = <<"{">> \o Quoted(key) \o <<":">> \o v \o <<"}">>

(***************************************************************************)
(* Objects with single or curly quotes (specification SpecQuotes)          *)
(***************************************************************************)
\* longest content of a quoted key or value
MaxContent == 2

\* opening and closing quote: straight single, curly single, curly double
QuotePairs ==
  {<<codeQuote, codeQuote>>, <<codeQuoteLeft, codeQuoteRight>>,
   <<codeDoubleQuoteLeft, codeDoubleQuoteRight>>}

\* contents without a quote character
Contents == Words({"a", "b", "1"}, MaxContent) \ {<<>>}

\* {'key':'v'} with the quotes q
QuotedEntry(q, key, v) ==
  <<"{", q[1]>> \o key \o <<q[2], ":", q[1]>> \o v \o <<q[2], "}">>

QuoteTexts == {QuotedEntry(q, key, v) : q \in QuotePairs, key \in Contents, v \in Contents}

InitQuotes == Ready(QuoteTexts, BOOLEAN)

SpecQuotes == InitQuotes /\ [][Next]_vars

\* C9: a key or a string value between straight single quotes or curly
\* quotes, with no quote character in its content, is written between
\* straight double quotes with its content unchanged; {'a':'b'} is returned
\* as exactly {"a":"b"}.
C9_QuotesAreNormalised ==
  Returned =>
    \A q \in QuotePairs, key \in Contents, v \in Contents :
      callText = QuotedEntry(q, key, v) =>
        retErr = NoErr /\ retText = <<"{">> \o Quoted(key) \o <<":">> \o Quoted(v) \o <<"}">>

(***************************************************************************)
(* Objects with a missing comma (specification SpecMissingComma)           *)
(***************************************************************************)
\* most whitespace characters between the two entries
MaxSpace == 2

Spaces == Concats({<<" ">>, <<"\n">>, <<"\t">>, <<"\r">>}, MaxSpace) \ {<<>>}

\* the ways the key b is written with a quote or a letter first
NextKeys == {Quoted(<<"b">>), <<"b">>, <<codeQuote, "b", codeQuote>>,
             <<codeDoubleQuoteLeft, "b", codeDoubleQuoteRight>>}

\* {"a":v space key:2}
MissingComma(v, w, key) == FirstEntry(v) \o w \o key \o <<":", "2", "}">>

MissingCommaTexts == {MissingComma(v, w, key) : v \in EntryValues, w \in Spaces, key \in NextKeys}

InitMissingComma == Ready(MissingCommaTexts, BOOLEAN)

SpecMissingComma == InitMissingComma /\ [][Next]_vars

\* C10: when two entries of an object are separated by whitespace only and
\* the next token starts with a quote or a letter, a comma is written directly
\* after the first value and the whitespace is kept after the comma;
\* {"a":1 "b":2} is returned as exactly {"a":1, "b":2}.
C10_CommaBeforeKeptWhitespace ==
  Returned =>
    \A v \in EntryValues, w \in Spaces, key \in NextKeys :
      callText = MissingComma(v, w, key) =>
        retErr = NoErr /\ retText = FirstEntry(v) \o <<",">> \o w \o SecondEntry

C10_CommaAndSpace ==
  /\ Returned
  /\ callText = MissingComma(<<"1">>, <<" ">>, Quoted(<<"b">>))
  /\ retText = FirstEntry(<<"1">>) \o <<",", " ">> \o SecondEntry

\* C10 as first stated: the two entries come back with the comma in place of the whitespace
C10_CommaReplacesWhitespace ==
  Returned /\ callText = MissingComma(<<"1">>, <<" ">>, Quoted(<<"b">>)) =>
    retText = FirstEntry(<<"1">>) \o <<",">> \o SecondEntry

(***************************************************************************)
(* A comment before the top-level value (specification SpecComments)       *)
(***************************************************************************)
\* most characters between the marks of a comment
MaxComment == 2

\* the contents of the comments: none starts with a slash or holds the end of a block
CommentContents == Words({"c", " ", "*", "\""}, MaxComment)

\* the whitespace before the comment and after a block comment
CommentGaps == {<<>>, <<" ">>, <<"\n">>}

\* a comment with the whitespace up to the value: [text, kept], kept being the
\* whitespace of text
LineComments ==
  {[text |-> <<"/", "/">> \o c \o nl, kept |-> nl] :
     c \in CommentContents, nl \in {<<"\n">>, <<"\r">>, <<"\r", "\n">>}}

BlockComments ==
  {[text |-> <<"/", "*">> \o c \o <<"*", "/">> \o w, kept |-> w] :
     c \in CommentContents, w \in CommentGaps}

\* // comment, with the newline that ends it
CommentExample ==
  [text |-> <<"/", "/", " ", "c", "o", "m", "m", "e", "n", "t", "\n">>, kept |-> <<"\n">>]

Comments == LineComments \cup BlockComments \cup {CommentExample}

\* the top-level values after the comment
CommentedValues == EntryValues \cup {FirstEntry(<<"1">>) \o <<"}">>}

LeadingComment(pre, com, v) == pre \o com.text \o v

CommentTexts ==
  {LeadingComment(pre, com, v) : pre \in CommentGaps, com \in Comments, v \in CommentedValues}

InitComments == Ready(CommentTexts, BOOLEAN)

SpecComments == InitComments /\ [][Next]_vars

ConstructorNames ==
  { <<"O", "b", "j", "e", "c", "t", "I", "d">>,
    <<"N", "u", "m", "b", "e", "r", "L", "o", "n", "g">>,
    <<"N", "u", "m", "b", "e", "r", "I", "n", "t">>,
    <<"I", "S", "O", "D", "a", "t", "e">>,
    <<"B", "i", "n", "D", "a", "t", "a">> }

\* unquoted arguments
ConstructorArgs ==
  { <<"a", "b", "c", "1", "2", "3">>, <<"a">>, <<"a", "b">>, <<"x", "1">>, <<"b", "2">>, <<"c">> }

\* the whitespace between the name and the parenthesis
ConstructorGaps == {<<>>, <<" ">>}

\* name(arg)
Constructor(name, gap, arg) == name \o gap \o <<"(">> \o arg \o <<")">>

ConstructorTexts ==
  {Constructor(name, gap, arg) :
     name \in ConstructorNames, gap \in ConstructorGaps, arg \in ConstructorArgs}

InitConstructors == Ready(ConstructorTexts, BOOLEAN)

SpecConstructors == InitConstructors /\ [][Next]_vars

\* C12: a constructor name immediately followed by a parenthesised unquoted
\* argument is returned as the quoted name followed by the quoted argument in
\* parentheses; ObjectId(abc123) is returned as exactly "ObjectId"("abc123").
C12_ConstructorIsQuoted ==
  Returned =>
    \A name \in ConstructorNames, arg \in ConstructorArgs :
      callText = Constructor(name, <<>>, arg) =>
        retErr = NoErr /\ retText = Quoted(name) \o <<"(">> \o Quoted(arg) \o <<")">>


(***************************************************************************)
(* ProcessJSON: validate, repair once, format (specification SpecProcess)  *)
(*                                                                         *)
(* gjson.Valid is the strict syntax check ValidJSON.  json.Unmarshal into  *)
(* interface{} additionally converts every number to a float64 and fails   *)
(* when one is out of range.  The formatted text is kept as the record of  *)
(* what was formatted and how; Error is the kind of the message.           *)
(***************************************************************************)

\* the value of a run of decimal digits, saturated above four digits
RECURSIVE decimalValue(_)
decimalValue(ds) ==
  IF ds = <<>> THEN 0
  ELSE IF Len(ds) > 4 THEN 9999
  ELSE 10 * decimalValue(SubSeq(ds, 1, Len(ds) - 1))
       + (CHOOSE n \in 0..9 : ToString(n) = ds[Len(ds)])

\* the first position of one of the characters cs in s, Len(s) + 1 if none
firstOf(s, cs) ==
  IF \E k \in 1..Len(s) : s[k] \in cs
  THEN CHOOSE k \in 1..Len(s) : s[k] \in cs /\ \A j \in 1..(k - 1) : s[j] \notin cs
  ELSE Len(s) + 1

\* the leading digits of halfway between the largest float64 and 2^1024
float64Overflow == <<"1","7","9","7","6","9","3","1","3","4","8","6","2","3",
                     "1","5","8","0","7","9","3">>

\* digits ds, read as d.ddd..., are at least the digits hs read the same way
RECURSIVE digitsAtLeast(_, _)
digitsAtLeast(ds, hs) ==
  IF hs = <<>> THEN TRUE
  ELSE LET d == IF ds = <<>> THEN "0" ELSE Head(ds)
           rest == IF ds = <<>> THEN <<>> ELSE Tail(ds)
       IN IF d = Head(hs) THEN digitsAtLeast(rest, Tail(hs))
          ELSE decimalValue(<<d>>) > decimalValue(<<Head(hs)>>)

\* strconv.ParseFloat(n, 64) reports a range error: the JSON number n rounds
\* to an infinity
floatOutOfRange(n) ==
  LET body == IF n # <<>> /\ n[1] = "-" THEN Tail(n) ELSE n
      ePos == firstOf(body, {"e", "E"})
      mant == SubSeq(body, 1, ePos - 1)
      dot == firstOf(mant, {"."})
      digits == SubSeq(mant, 1, dot - 1) \o SubSeq(mant, dot + 1, Len(mant))
      nz == firstOf(digits, Digits \ {"0"})
      expText == SubSeq(body, ePos + 1, Len(body))
      expDigits == IF expText # <<>> /\ expText[1] \in {"+", "-"}
                   THEN Tail(expText) ELSE expText
      exp == IF expText # <<>> /\ expText[1] = "-"
             THEN 0 - decimalValue(expDigits) ELSE decimalValue(expDigits)
      magnitude == (dot - 1) - nz + exp
  IN /\ nz <= Len(digits)
     /\ \/ magnitude > 308
        \/ /\ magnitude = 308
           /\ digitsAtLeast(SubSeq(digits, nz, Len(digits)), float64Overflow)

\* the operators of the application by name, as Call is for the parsers
RECURSIVE CallApp(_, _)

\* gjson.Valid(t)
gjsonValid(t) == CallApp("parseJSON", <<t>>).kind # "invalid"

\* json.Unmarshal(finalJSON, &obj) returns an error for the parsed document v
RECURSIVE unmarshalFails(_)
unmarshalFails(v) ==
  \/ v.kind = "number" /\ floatOutOfRange(v.s)
  \/ \E k \in 1..Len(v.kids) : unmarshalFails(v.kids[k])

JSONResponse(success, data, error, repaired) ==
  [Success |-> success, Data |-> data, Error |-> error, Repaired |-> repaired]

\* the formatting step of ProcessJSON on the text finalJSON that passed the
\* validity check; calls is the number of calls of JSONRepair made before it
formatJSON(finalJSON, indent, trimWhitespace, keepOrder, repaired, calls) ==
  IF ~keepOrder /\ unmarshalFails(CallApp("parseJSON", <<finalJSON>>))
  THEN [resp |-> JSONResponse(FALSE, NoData, "parse", FALSE), calls |-> calls]
  ELSE [resp |-> JSONResponse(TRUE,
                              [json |-> finalJSON, indent |-> indent,
                               trimmed |-> trimWhitespace, sorted |-> ~keepOrder],
                              "", repaired),
        calls |-> calls]

\* ProcessJSON after its call of JSONRepair returned r
afterRepair(r, indent, trimWhitespace, keepOrder) ==
  IF r.err # NoErr
  THEN [resp |-> JSONResponse(FALSE, NoData, "repair", FALSE), calls |-> 1]
  ELSE IF ~gjsonValid(r.out)
  THEN [resp |-> JSONResponse(FALSE, NoData, "stillInvalid", FALSE), calls |-> 1]
  ELSE formatJSON(r.out, indent, trimWhitespace, keepOrder, TRUE, 1)

\* ProcessJSON that repairs every non-empty input, valid or not
ProcessJSONRepairingAlways(input, indent, trimWhitespace, keepOrder) ==
  IF input = <<>>
  THEN [resp |-> JSONResponse(TRUE, NoData, "", FALSE), calls |-> 0]
  ELSE afterRepair(CallApp("JSONRepair", <<input, trimWhitespace>>),
                   indent, trimWhitespace, keepOrder)

\* the response of ProcessJSON and the number of calls of JSONRepair it made
ProcessJSONOp(input, indent, trimWhitespace, keepOrder) ==
  IF input = <<>>
  THEN [resp |-> JSONResponse(TRUE, NoData, "", FALSE), calls |-> 0]
  ELSE IF gjsonValid(input)
  THEN formatJSON(input, indent, trimWhitespace, keepOrder, FALSE, 0)
  ELSE afterRepair(CallApp("JSONRepair", <<input, trimWhitespace>>),
                   indent, trimWhitespace, keepOrder)

CallApp(fn, args) ==
  CASE fn = "parseJSON" -> parseJSON(args[1])
    [] fn = "JSONRepair" -> Call("JSONRepairOp", args)
    [] fn = "ProcessJSON" -> ProcessJSONOp(args[1], args[2], args[3], args[4])

MaxInput == 3

ProcessAlphabet == {"[", "1", ",", "a", "{", ":", "'", "("}

\* short texts of every outcome, and numbers no float64 can hold
ProcessInputs ==
  Words(ProcessAlphabet, MaxInput)
    \cup {<<"[", "1", "e", "9", "9", "9">>, <<"1", "e", "9", "9", "9">>,
          <<"[", "1", "e", "9", "9", "9", ",", "]">>,
          <<"[", "2", "e", "3", "0", "8">>, <<"[", "1", "e", "3", "0", "8">>,
          <<"[", "1", "e", "-", "9", "9", "9">>, <<"[", "0", "e", "9", "9", "9">>}

Indents == {"tab", "2", "4"}

InitProcess ==
  /\ callText \in ProcessInputs
  /\ callTrim \in BOOLEAN
  /\ callIndent \in Indents
  /\ callKeepOrder \in BOOLEAN
  /\ pc = "ready"
  /\ retText = <<>>
  /\ retErr = NoErr
  /\ cursor = 0
  /\ events = {}
  /\ response = NoResponse
  /\ repairCalls = 0
  /\ useAppStore

ProcessJSON ==
  /\ pc = "ready"
  /\ \E p \in {CallApp("ProcessJSON",
                       <<callText, callIndent, callTrim, callKeepOrder>>)} :
       /\ response' = p.resp
       /\ repairCalls' = p.calls
  /\ pc' = "done"
  /\ UNCHANGED <<callText, callTrim, callIndent, callKeepOrder, retText, retErr,
                 cursor, events, storeVars>>

NextProcess == ProcessJSON

SpecProcess == InitProcess /\ [][NextProcess]_vars

\* the validity check failed on the input and the one repair returned text
\* that passes it
RepairedToValid ==
  /\ callText # <<>>
  /\ ~ValidJSON(callText)
  /\ LET r == JSONRepairOp(callText, callTrim)
     IN r.err = NoErr /\ ValidJSON(r.out)

\* the repair returned text that fails the validity check
RepairedToInvalid ==
  /\ callText # <<>>
  /\ ~ValidJSON(callText)
  /\ LET r == JSONRepairOp(callText, callTrim)
     IN r.err = NoErr /\ ~ValidJSON(r.out)

\* JSONRepair is called at most once, and only for a non-empty input that
\* fails the validity check; text repaired to invalid text is refused
OneRepairOnly ==
  /\ repairCalls \in {0, 1}
  /\ repairCalls = 1 <=> (callText # <<>> /\ ~ValidJSON(callText))
  /\ RepairedToInvalid =>
       /\ ~response.Success
       /\ response.Data = NoData
       /\ response.Error = "stillInvalid"
       /\ repairCalls = 1

\* C13 as first stated: ProcessJSON calls JSONRepair only when the validity
\* check of the non-empty input fails, returns Repaired = true exactly when
\* the input was invalid and the repair returned text that passes the check,
\* and refuses text repaired to invalid text without a second repair.
C13_RepairedIffRepairValid ==
  Returned => /\ OneRepairOnly
              /\ response.Repaired <=> RepairedToValid

\* C13: ProcessJSON calls JSONRepair only when the validity check of the
\* non-empty input fails, returns Repaired = true exactly when the input was
\* invalid, the repair returned text that passes the check and the formatting
\* of that text succeeded, and refuses text repaired to invalid text
\* (Success = false, no data) without a second repair.
C13_RepairedIffRepairFormatted ==
  Returned => /\ OneRepairOnly
              /\ response.Repaired <=> (RepairedToValid /\ response.Success)

\* the invalid text [1, was repaired once to [1] and formatted
C13_RepairedOnce ==
  /\ Returned
  /\ callText = <<"[", "1", ",">>
  /\ response.Repaired
  /\ response.Data.json = <<"[", "1", "]">>
  /\ repairCalls = 1


(***************************************************************************)
(* Keys that are a protocol before :// (specification SpecURLKeys)         *)
(***************************************************************************)
Protocols == {<<"h", "t", "t", "p">>, <<"h", "t", "t", "p", "s">>, <<"f", "t", "p">>}

\* what precedes the key: nothing, an opening brace or bracket, an earlier
\* entry with or without its brace
URLKeyPrefixes == {<<>>, <<"{">>, <<"[", "{">>, FirstEntry(<<"1">>) \o <<",">>,
                   Tail(FirstEntry(<<"1">>)) \o <<",">>}

URLKeyRests == {<<>>, <<"x">>, <<"x", "}">>, <<"x", "\"", ":", "1", "}">>}

URLKey(pre, q, protocol, rest) == pre \o q \o protocol \o q \o <<":", "/", "/">> \o rest

URLKeyTexts ==
  {URLKey(pre, q, protocol, rest) :
     pre \in URLKeyPrefixes, q \in {<<"\"">>, <<"'">>}, protocol \in Protocols,
     rest \in URLKeyRests}

InitURLKeys == Ready(URLKeyTexts, BOOLEAN)

SpecURLKeys == InitURLKeys /\ [][Next]_vars

C15_OpenedObjectSucceeds ==
  Returned =>
    /\ LET r == parseObject(callText, MkSt(0, <<>>, {}), callTrim)
       IN (r.err = NoErr /\ r.out # <<>>) => r.ok
    /\ "backtracked" \notin events


(***************************************************************************)
(* Texts that end after a key (specification SpecTruncated)                *)
(***************************************************************************)
\* what precedes the key, and what closes the containers around the object
TruncatedPrefixes ==
  {[text |-> <<"{">>, close |-> <<>>],
   [text |-> FirstEntry(<<"1">>) \o <<",">>, close |-> <<>>],
   [text |-> <<"[", "{">>, close |-> <<"]">>],
   [text |-> FirstEntry(<<"{">>), close |-> <<"}">>]}

TruncatedKeys == {<<"k">>, <<"k", "e">>, <<"k", "1">>}

\* the key as written: in double quotes, in single quotes, without quotes
KeyForms(key) == {Quoted(key), <<"'">> \o key \o <<"'">>, key}

\* the text ends after the key, or after the key and its colon
TruncatedTails == {<<>>, <<":">>}

TruncatedTexts ==
  {pre.text \o k \o tail :
     pre \in TruncatedPrefixes, k \in UNION {KeyForms(key) : key \in TruncatedKeys},
     tail \in TruncatedTails}

InitTruncated == Ready(TruncatedTexts, BOOLEAN)

SpecTruncated == InitTruncated /\ [][Next]_vars

\* C16: a text that ends inside an object right after a key, or right after
\* a key and its colon, is repaired without an error to the object with the
\* colon, the value null and the closing brace; the result is determined by
\* the text: {"k" and {"k": both give {"k":null}.
C16_TruncatedEntryGetsNull ==
  Returned =>
    \A pre \in TruncatedPrefixes, key \in TruncatedKeys, tail \in TruncatedTails :
      callText \in {pre.text \o k \o tail : k \in KeyForms(key)}
        => /\ retErr = NoErr
           /\ retText = pre.text \o Quoted(key) \o <<":">> \o kwNull \o <<"}">>
                          \o pre.close

\* {"k": was repaired to {"k":null}
C16_ColonThenEnd ==
  /\ Returned
  /\ callText = <<"{">> \o Quoted(<<"k">>) \o <<":">>
  /\ retText = <<"{">> \o Quoted(<<"k">>) \o <<":">> \o kwNull \o <<"}">>


(***************************************************************************)
(* Arrays with surplus commas (specification SpecArrayCommas)              *)
(***************************************************************************)
\* most commas before the first element
MaxLeading == 2

\* most commas between the two elements
MaxBetween == 3

\* what follows each comma
ArrayGaps == {<<>>, <<" ">>, <<"/", "*", "c", "*", "/">>}

\* n times the sequence s
RECURSIVE Times(_, _)
Times(n, s) == IF n = 0 THEN <<>> ELSE s \o Times(n - 1, s)

\* [ commas e commas f commas ]
CommaArray(leading, e, between, f, trailing, g) ==
  <<"[">> \o Times(leading, <<",">> \o g) \o e \o Times(between, <<",">> \o g) \o f
          \o Times(trailing, <<",">> \o g) \o <<"]">>

ArrayElements == {<<"1">>, Quoted(<<"x">>)}

ArrayCommaTexts ==
  {CommaArray(leading, e, between, <<"2">>, trailing, g) :
     leading \in 0..MaxLeading, e \in ArrayElements, between \in 1..MaxBetween,
     trailing \in 0..1, g \in ArrayGaps}

InitArrayCommas == Ready(ArrayCommaTexts, BOOLEAN)

SpecArrayCommas == InitArrayCommas /\ [][Next]_vars

\* C17: in an array a null is written between two commas that follow each
\* other and before a comma at the very start, and a comma followed only by
\* whitespace and the closing bracket is removed: [1,,2] gives [1,null,2],
\* [,1] gives [null,1] and [1,2,] gives [1,2].
C17_ArrayCommasGetNulls ==
  Returned =>
    \A leading \in 0..MaxLeading, e \in ArrayElements, between \in 1..MaxBetween,
       trailing \in 0..1, g \in ArrayGaps :
      callText = CommaArray(leading, e, between, <<"2">>, trailing, g)
        => /\ retErr = NoErr
           /\ Compact(retText) =
                <<"[">> \o Times(leading, kwNull \o <<",">>) \o e \o <<",">>
                        \o Times(between - 1, kwNull \o <<",">>) \o <<"2", "]">>


(***************************************************************************)
(* An unclosed array before the next entry (specification SpecOpenArray)   *)
(***************************************************************************)
\* the elements of the array, each followed by what the text has after it
OpenArrayElements ==
  {<<>>, <<"1">>, <<"1", ",", "2">>, Quoted(<<"x">>), <<"1", ",">> \o Quoted(<<"x">>),
   <<"[", "1", "]">>}

\* the next entry of the object as written, and as it is to be returned
NextEntries ==
  {[text |-> gap \o k \o colon \o v \o end, out |-> Quoted(<<"b">>) \o <<":">> \o v \o <<"}">>] :
     gap \in {<<>>, <<" ">>}, k \in KeyForms(<<"b">>), colon \in {<<":">>, <<"=">>},
     v \in {<<"3">>, Quoted(<<"y">>)}, end \in {<<>>, <<"}">>}}

\* {"a":[ elements , entry
ArrayThenEntry(elements, entry) == FirstEntry(<<"[">>) \o elements \o <<",">> \o entry.text

\* {"a":[ elements }   and   {"a":[ elements ,}
ArrayThenBrace(elements, comma) == FirstEntry(<<"[">>) \o elements \o comma \o <<"}">>

OpenArrayTexts ==
  {ArrayThenEntry(elements, entry) : elements \in OpenArrayElements \ {<<>>}, entry \in NextEntries}
  \cup {FirstEntry(<<"[">>) \o entry.text : entry \in NextEntries}
  \cup {ArrayThenBrace(elements, comma) :
          elements \in OpenArrayElements \ {<<>>}, comma \in {<<>>, <<",">>}}

InitOpenArray == Ready(OpenArrayTexts, BOOLEAN)

SpecOpenArray == InitOpenArray /\ [][Next]_vars

\* C18: an unclosed array value of an object followed by a key and a colon
\* (or =), or by the closing brace, is closed before that token, without its
\* dangling comma, and the object takes the token as its next entry:
\* {"a":[1,2,"b":3} gives {"a":[1,2],"b":3}.
C18_OpenArrayIsClosedBeforeKey ==
  Returned =>
    /\ \A elements \in OpenArrayElements, entry \in NextEntries :
         callText \in {ArrayThenEntry(elements, entry), FirstEntry(<<"[">>) \o elements \o entry.text}
                        \cap OpenArrayTexts
           => /\ retErr = NoErr
              /\ Compact(retText) = FirstEntry(<<"[">>) \o elements \o <<"]", ",">> \o entry.out
    /\ \A elements \in OpenArrayElements \ {<<>>}, comma \in {<<>>, <<",">>} :
         callText = ArrayThenBrace(elements, comma)
           => /\ retErr = NoErr
              /\ retText = FirstEntry(<<"[">>) \o elements \o <<"]", "}">>

\* {"a":[1,2,"b":3} was repaired to {"a":[1,2],"b":3}
C18_ArrayClosedEntryKept ==
  /\ Returned
  /\ callText = FirstEntry(<<"[">>) \o <<"1", ",", "2", ",">> \o Quoted(<<"b">>) \o <<":", "3", "}">>
  /\ retText = FirstEntry(<<"[">>) \o <<"1", ",", "2", "]", ",">> \o Quoted(<<"b">>)
                 \o <<":", "3", "}">>


(***************************************************************************)
(* Strings joined by + (specification SpecConcatenation)                   *)
(***************************************************************************)
\* most quoted segments joined by +
MaxSegments == 3

SegmentContents == {<<"a">>, <<"b">>, <<"a", "b">>}

\* the contents of the segments of one string, two at least
SegmentLists == UNION {[1..n -> SegmentContents] : n \in 2..MaxSegments}

\* "s1" + "s2" + ... with the whitespace before and after each +
RECURSIVE Joined(_, _, _)
Joined(segments, before, after) ==
  IF Len(segments) = 1 THEN Quoted(segments[1])
  ELSE Quoted(Head(segments)) \o before \o <<"+">> \o after \o Joined(Tail(segments), before, after)

\* the contents of the segments one after the other
RECURSIVE Spliced(_)
Spliced(segments) == IF segments = <<>> THEN <<>> ELSE Head(segments) \o Spliced(Tail(segments))

\* what is around the string: nothing, an object with the key k, an array
ConcatenationFrames ==
  {[open |-> <<>>, close |-> <<>>],
   [open |-> <<"{">> \o Quoted(<<"k">>) \o <<":">>, close |-> <<"}">>],
   [open |-> <<"[">>, close |-> <<"]">>]}

Concatenation(frame, segments, before, after) ==
  frame.open \o Joined(segments, before, after) \o frame.close

ConcatenationTexts ==
  {Concatenation(frame, segments, before, after) :
     frame \in ConcatenationFrames, segments \in SegmentLists,
     before \in {<<>>, <<" ">>}, after \in {<<>>, <<" ">>}}

InitConcatenation == Ready(ConcatenationTexts, BOOLEAN)

SpecConcatenation == InitConcatenation /\ [][Next]_vars

\* C19: quoted strings joined by + are merged into one string whose content
\* is the contents one after the other, for two segments or more, and what
\* was written before the string is left as it was: "a" + "b" gives "ab" and
\* {"k": "a" + "b"} an object whose key k has the value ab.
C19_SegmentsAreSpliced ==
  Returned =>
    \A frame \in ConcatenationFrames, segments \in SegmentLists,
       before \in {<<>>, <<" ">>}, after \in {<<>>, <<" ">>} :
      callText = Concatenation(frame, segments, before, after)
        => /\ retErr = NoErr
           /\ Compact(retText) = frame.open \o Quoted(Spliced(segments)) \o frame.close


(***************************************************************************)
(* Quoted strings of digits (specification SpecDigitStrings)               *)
(***************************************************************************)
\* most digits after the first
MaxDigits == 4

DigitChoices == {"0", "1", "5"}

DigitTails(least) == {w \in Words(DigitChoices, MaxDigits) : Len(w) >= least}

\* a zero followed by one digit at least, such as 00501
LeadingZeroDigits == {<<"0">> \o w : w \in DigitTails(1)}

\* a number without a leading zero, such as 42
PlainNumbers == {<<d>> \o w : d \in DigitChoices \ {"0"}, w \in DigitTails(0)}

\* what is around the string: nothing, an object with the key k, an array
DigitStringTexts ==
  {frame.open \o q \o content \o q \o frame.close :
     frame \in ConcatenationFrames, q \in {<<"\"">>, <<"'">>},
     content \in LeadingZeroDigits \cup PlainNumbers}

InitDigitStrings == Ready(DigitStringTexts, BOOLEAN)

SpecDigitStrings == InitDigitStrings /\ [][Next]_vars

\* C20: a quoted string whose content is a zero followed by more digits, such
\* as '00501', is returned as a double-quoted string; one whose content is a
\* number without a leading zero, such as '42', is returned bare.
C20_LeadingZeroStaysQuoted ==
  Returned =>
    \A frame \in ConcatenationFrames, q \in {<<"\"">>, <<"'">>} :
      /\ \A content \in LeadingZeroDigits :
           callText = frame.open \o q \o content \o q \o frame.close
             => retErr = NoErr /\ retText = frame.open \o Quoted(content) \o frame.close
      /\ \A content \in PlainNumbers :
           callText = frame.open \o q \o content \o q \o frame.close
             => retErr = NoErr /\ retText = frame.open \o content \o frame.close


(***************************************************************************)
(* Numbers written with a + (specification SpecPlusNumbers)                *)
(***************************************************************************)
PlusIntegers == {<<>>, <<"0">>, <<"1">>, <<"1", "2">>}

\* what follows the integer part: nothing, a fraction or an exponent, whole
\* or cut after the dot, the exponent marker or the sign of the exponent
PlusTails ==
  {<<>>, <<".">>, <<"e">>, <<"E">>, <<"e", "+">>, <<"e", "-">>, <<".", "5">>,
   <<"e", "5">>, <<"e", "+", "5">>}

PlusNumber(frame, int, tail) == frame.open \o <<"+">> \o int \o tail \o frame.close

PlusNumberTexts ==
  {PlusNumber(frame, int, tail) :
     frame \in ConcatenationFrames, int \in PlusIntegers, tail \in PlusTails}

InitPlusNumbers == Ready(PlusNumberTexts, BOOLEAN)

SpecPlusNumbers == InitPlusNumbers /\ [][Next]_vars

\* C21: a number written for a token that starts with + does not begin with
\* +, also when the token was completed because it ends in a sign, a dot or
\* an exponent marker (+, +1., +1e).
C21_NoLeadingPlus ==
  Returned /\ retErr = NoErr =>
    \A frame \in ConcatenationFrames, int \in PlusIntegers, tail \in PlusTails :
      (callText = PlusNumber(frame, int, tail) /\ Len(retText) > Len(frame.open))
        => retText[Len(frame.open) + 1] # "+"


(***************************************************************************)
(* Numbers with a leading zero (specification SpecZeroNumbers)             *)
(***************************************************************************)
\* integer parts that are a 0 followed by another digit
ZeroIntegers == {<<"0", "1">>, <<"0", "0">>, <<"0", "1", "2">>, <<"0", "1", "2", "3">>}

ZeroTails == {<<>>, <<".", "5">>, <<"e", "5">>, <<"E", "5">>, <<"e", "+", "5">>}

ZeroNumber(sign, int, tail) == sign \o int \o tail

ZeroNumberTexts ==
  {frame.open \o ZeroNumber(sign, int, tail) \o frame.close :
     frame \in ConcatenationFrames, sign \in {<<>>, <<"-">>}, int \in ZeroIntegers,
     tail \in ZeroTails}

InitZeroNumbers == Ready(ZeroNumberTexts, BOOLEAN)

SpecZeroNumbers == InitZeroNumbers /\ [][Next]_vars

\* C22: a bare number whose integer part is a 0 followed by another digit is
\* returned as a double-quoted string, with or without a minus sign, a
\* fraction or an exponent: 0123, -0123, 012e5.
C22_LeadingZeroIsQuoted ==
  Returned =>
    \A frame \in ConcatenationFrames, sign \in {<<>>, <<"-">>}, int \in ZeroIntegers,
       tail \in ZeroTails :
      callText = frame.open \o ZeroNumber(sign, int, tail) \o frame.close
        => /\ retErr = NoErr
           /\ retText = frame.open \o Quoted(ZeroNumber(sign, int, tail)) \o frame.close


(***************************************************************************)
(* Bare words as values (specification SpecBareWords)                      *)
(***************************************************************************)
\* most letters after the first
MaxWordTail == 2

WordStarts == {"a", "e", "E", "t", "n", "f", "x"}

\* the bare word undefined
UndefinedWord == <<"u", "n", "d", "e", "f", "i", "n", "e", "d">>

\* words that are no keyword, no number and no constructor name
BareWords == {<<c>> \o w : c \in WordStarts, w \in Words({"a", "s"}, MaxWordTail)}

\* the word as an array element and as an object value
ValueFrames ==
  {[open |-> <<"[">>, close |-> <<"]">>],
   [open |-> <<"{">> \o Quoted(<<"k">>) \o <<":">>, close |-> <<"}">>]}

BareWordTexts ==
  {frame.open \o word \o frame.close :
     frame \in ValueFrames, word \in BareWords \cup {UndefinedWord}}

InitBareWords == Ready(BareWordTexts, BOOLEAN)

SpecBareWords == InitBareWords /\ [][Next]_vars

\* C23: a bare word that is an array element or an object value, and is no
\* keyword, number or constructor name, is returned as one double-quoted
\* string of exactly its characters, whatever its first letter (e and E
\* included); the bare word undefined is returned as null.
C23_BareWordIsQuoted ==
  Returned =>
    \A frame \in ValueFrames :
      /\ \A word \in BareWords :
           callText = frame.open \o word \o frame.close
             => retErr = NoErr /\ retText = frame.open \o Quoted(word) \o frame.close
      /\ callText = frame.open \o UndefinedWord \o frame.close
           => retErr = NoErr /\ retText = frame.open \o kwNull \o frame.close


(***************************************************************************)
(* Escapes inside a string (specification SpecEscapes)                     *)
(***************************************************************************)
\* a backslash and what follows it, for the escapes of JSON
ValidEscapes ==
  {<<codeBackslash, c>> : c \in {"\"", codeBackslash, "/", "b", "f", "n", "r", "t"}}
  \cup {<<codeBackslash, "u", "0", "0", "e", "9">>, <<codeBackslash, "u", "1", "2", "A", "f">>}

\* a backslash before fewer than four hex digits, another character, or nothing
InvalidEscapes ==
  {<<codeBackslash, "u">>, <<codeBackslash, "u", "1">>, <<codeBackslash, "u", "1", "2">>,
   <<codeBackslash, "u", "1", "2", "3">>, <<codeBackslash, "x">>, <<codeBackslash, "1">>,
   <<codeBackslash, "q">>}

EscapeBefore == {<<>>, <<"a">>}

EscapeAfter == {<<>>, <<"n">>, <<"z">>}

\* the string as written, with its end quote or cut before it
EscapedString(pre, esc, post, closed) ==
  <<"\"">> \o pre \o esc \o post \o (IF closed THEN <<"\"">> ELSE <<>>)

EscapeTexts ==
  {EscapedString(pre, esc, post, closed) :
     pre \in EscapeBefore, esc \in ValidEscapes \cup InvalidEscapes, post \in EscapeAfter,
     closed \in BOOLEAN}
  \cup {<<"\"">> \o pre \o <<codeBackslash>> : pre \in EscapeBefore}

InitEscapes == Ready(EscapeTexts, BOOLEAN)

SpecEscapes == InitEscapes /\ [][Next]_vars

\* C24: inside a quoted string a backslash before one of " \ / b f n r t, or
\* before u and four hex digits, is copied as it is; a backslash before u and
\* fewer hex digits, before any other character or at the end of the text is
\* written as two backslashes followed by those characters.
C24_EscapesAreKeptOrDoubled ==
  Returned /\ ~callTrim =>
    /\ \A pre \in EscapeBefore, post \in EscapeAfter, closed \in BOOLEAN :
         /\ \A esc \in ValidEscapes :
              callText = EscapedString(pre, esc, post, closed)
                => retErr = NoErr /\ retText = Quoted(pre \o esc \o post)
         /\ \A esc \in InvalidEscapes :
              callText = EscapedString(pre, esc, post, closed)
                => retErr = NoErr /\ retText = Quoted(pre \o <<codeBackslash>> \o esc \o post)
    /\ \A pre \in EscapeBefore :
         callText = <<"\"">> \o pre \o <<codeBackslash>>
           => retErr = NoErr /\ retText = Quoted(pre \o <<codeBackslash, codeBackslash>>)


(***************************************************************************)
(* Whitespace at the ends of a string (specification SpecTrim)             *)
(***************************************************************************)
\* runs of spaces and escaped whitespace
TrimRuns == {<<>>, <<" ">>, <<codeBackslash, "n">>, <<" ", codeBackslash, "t">>}

TrimCores == {<<"a">>, <<"a", " ", "b">>}

\* a string value with a run before and after its content
PaddedString(lead, core, trail, closed) ==
  <<"\"">> \o lead \o core \o trail \o (IF closed THEN <<"\"">> ELSE <<>>)

PaddedTexts ==
  {PaddedString(lead, core, trail, closed) :
     lead \in TrimRuns, core \in TrimCores, trail \in TrimRuns, closed \in BOOLEAN}

InitTrim == Ready(PaddedTexts, BOOLEAN)

SpecTrim == InitTrim /\ [][Next]_vars

\* C25: with trimWhitespace=true a string value is written without its
\* leading and trailing runs of spaces and escaped whitespace, closed by its
\* end quote or not; with trimWhitespace=false only the trailing run is
\* removed.
C25_StringEndsAreTrimmed ==
  Returned =>
    \A lead \in TrimRuns, core \in TrimCores, trail \in TrimRuns, closed \in BOOLEAN :
      callText = PaddedString(lead, core, trail, closed)
        => /\ retErr = NoErr
           /\ retText = Quoted(IF callTrim THEN core ELSE lead \o core)

(***************************************************************************)
(* Keys written in quotes (specification SpecQuotedKeys)                   *)
(***************************************************************************)
KeyContents == {<<"k">>, <<"1">>, <<"4", "2">>, <<"1", "a">>, <<"-", "1">>, <<"1", ".", "5">>}

KeyQuotes == {<<"\"">>, <<"'">>}

KeyValues == {<<"1">>, <<"\"", "v", "\"">>, <<"t", "r", "u", "e">>}

\* an object of one entry or of two, the key in quotes
KeyedObject(quote, key, value, second) ==
  <<"{">> \o (IF second THEN <<"\"", "a", "\"", ":", "0", ",">> ELSE <<>>)
    \o quote \o key \o quote \o <<":">> \o value \o <<"}">>

KeyedObjectTexts ==
  {KeyedObject(quote, key, value, second) :
     quote \in KeyQuotes, key \in KeyContents, value \in KeyValues, second \in BOOLEAN}

InitQuotedKeys == Ready(KeyedObjectTexts, BOOLEAN)

SpecQuotedKeys == InitQuotedKeys /\ [][Next]_vars

\* C26: a key written in quotes in the text, its content looking like a
\* number or not, is written to the output as a double-quoted string.
C26_KeysAreQuoted ==
  Returned =>
    \A quote \in KeyQuotes, key \in KeyContents, value \in KeyValues, second \in BOOLEAN :
      callText = KeyedObject(quote, key, value, second)
        => /\ retErr = NoErr
           /\ retText = KeyedObject(<<"\"">>, key, value, second)


(***************************************************************************)
(* A dangling comma in a nested container (specification SpecDangling)     *)
(***************************************************************************)
\* what the enclosing container has written before the nested one opens
OuterPrefixes ==
  { <<"[", "1", ",">>,
    <<"[", "\"", "a", ",", "b", "\"", ",">>,
    <<"{", "\"", "a", "\"", ":", "1", ",", "\"", "b", "\"", ":">> }

\* the nested container up to its dangling comma, or just opened
InnerStarts ==
  { <<"{">>, <<"{", "\"", "k", "\"", ":", "2", ",">>, <<"[">>, <<"[", "2", ",">> }

\* what stands where the next key or element is missing
MissingAt == {<<>>, <<"]">>, <<"}">>, <<"[">>, <<"{">>}

DanglingTexts ==
  {outer \o inner \o at : outer \in OuterPrefixes, inner \in InnerStarts, at \in MissingAt}

InitDangling == Ready(DanglingTexts, BOOLEAN)

SpecDangling == InitDangling /\ [][Next]_vars

\* C27: when a nested object or array removes a dangling comma, what the
\* enclosing container wrote before the nested one's opening token, its
\* separating comma included, is still in the output unchanged.
C27_OuterOutputKept ==
  Returned /\ retErr = NoErr =>
    \A outer \in OuterPrefixes, inner \in InnerStarts, at \in MissingAt :
      callText = outer \o inner \o at => HasPrefix(retText, outer \o <<inner[1]>>)

(***************************************************************************)
(* Input left unread (specification Spec)                                  *)
(***************************************************************************)
\* the characters after the cursor
Unread == SubSeq(callText, cursor + 1, Len(callText))

\* C28: whenever JSONRepair returns without an error the cursor stands at the
\* end of the text, or what is left unread is whitespace or comments only
\* (counted generously: any rest that holds a slash may be a comment).
C28_NothingLeftUnread ==
  Returned /\ retErr = NoErr =>
    \/ \E k \in DOMAIN Unread : Unread[k] = "/"
    \/ \A k \in DOMAIN Unread : Unread[k] = " "


(***************************************************************************)
(* The tab store of the frontend (specification SpecTabs).  A tab is       *)
(* [id, isPinned]; its name, content, isDirty and formatOptions are read   *)
(* by none of the operations below.  Indices are those of the source,      *)
(* from 0.                                                                 *)
(***************************************************************************)
\* tabs created in one run of the store
MaxCreated == 4

\* Array.findIndex by id: the first index, -1 without a match
findIndex(ts, id) ==
  IF \E k \in DOMAIN ts : ts[k].id = id
  THEN (CHOOSE k \in DOMAIN ts : ts[k].id = id /\ \A j \in 1..(k - 1) : ts[j].id # id) - 1
  ELSE -1

\* Array.filter: the elements at the kept places, in their order
RECURSIVE filter(_, _, _)
filter(ts, kept, k) ==
  IF k > Len(ts) THEN <<>>
  ELSE (IF k \in kept THEN <<ts[k]>> ELSE <<>>) \o filter(ts, kept, k + 1)

\* the result of an operation of the store
Store(ts, active, next) == [tabs |-> ts, activeTabId |-> active, nextTabId |-> next]

createTabOp(ts, active, next) ==
  Store(Append(ts, [id |-> next, isPinned |-> FALSE]), next, next + 1)

closeTabOp(ts, active, next, id) ==
  LET index == findIndex(ts, id)
      nextTab == IF index + 2 <= Len(ts) THEN ts[index + 2].id
                 ELSE IF index >= 1 THEN ts[index].id
                 ELSE null
  IN  IF index = -1 THEN Store(ts, active, next)
      ELSE IF ts[index + 1].isPinned THEN Store(ts, active, next)
      ELSE Store(filter(ts, DOMAIN ts \ {index + 1}, 1),
                 IF active = id THEN nextTab ELSE active,
                 next)

togglePinOp(ts, active, next, id) ==
  LET index == findIndex(ts, id)
  IN  IF index = -1 THEN Store(ts, active, next)
      ELSE Store([ts EXCEPT ![index + 1].isPinned = ~ts[index + 1].isPinned], active, next)

\* the places closeOtherTabs keeps: the tab itself and the pinned tabs
closeOtherTabsKeepsTarget(ts, id) == {k \in DOMAIN ts : ts[k].id = id}

closeOtherTabsKeeps(ts, id) == {k \in DOMAIN ts : ts[k].id = id \/ ts[k].isPinned}

closeOtherTabsOp(ts, active, next, id) ==
  Store(filter(ts, closeOtherTabsKeeps(ts, id), 1), id, next)

closeTabsToLeftOp(ts, active, next, id) ==
  LET index == findIndex(ts, id)
  IN  IF index = -1 THEN Store(ts, active, next)
      ELSE Store(filter(ts, {k \in DOMAIN ts : k - 1 >= index \/ ts[k].isPinned}, 1),
                 active, next)

closeTabsToRightOp(ts, active, next, id) ==
  LET index == findIndex(ts, id)
  IN  IF index = -1 THEN Store(ts, active, next)
      ELSE Store(filter(ts, {k \in DOMAIN ts : k - 1 <= index \/ ts[k].isPinned}, 1),
                 active, next)

closeAllTabsOp(ts, active, next) ==
  LET pinned == filter(ts, {k \in DOMAIN ts : ts[k].isPinned}, 1)
  IN  IF Len(pinned) > 0 THEN Store(pinned, pinned[1].id, next)
      ELSE createTabOp(pinned, active, next)

\* the ids of the tabs in the store
TabIds == {tabs[k].id : k \in DOMAIN tabs}

\* a call returns: the store takes the result, the call is recorded
Returns(op, id, r) ==
  /\ tabs' = r.tabs
  /\ activeTabId' = r.activeTabId
  /\ nextTabId' = r.nextTabId
  /\ tabCall' = [op |-> op, id |-> id, before |-> tabs]
  /\ UNCHANGED <<callText, callTrim, pc, retText, retErr, cursor, events,
                 callIndent, callKeepOrder, response, repairCalls>>

createTab ==
  /\ nextTabId <= MaxCreated
  /\ Returns("createTab", null, createTabOp(tabs, activeTabId, nextTabId))

closeTab ==
  \E id \in TabIds : Returns("closeTab", id, closeTabOp(tabs, activeTabId, nextTabId, id))

togglePin ==
  \E id \in TabIds : Returns("togglePin", id, togglePinOp(tabs, activeTabId, nextTabId, id))

closeOtherTabs ==
  \E id \in TabIds :
    Returns("closeOtherTabs", id, closeOtherTabsOp(tabs, activeTabId, nextTabId, id))

closeTabsToLeft ==
  \E id \in TabIds :
    Returns("closeTabsToLeft", id, closeTabsToLeftOp(tabs, activeTabId, nextTabId, id))

closeTabsToRight ==
  \E id \in TabIds :
    Returns("closeTabsToRight", id, closeTabsToRightOp(tabs, activeTabId, nextTabId, id))

\* without a pinned tab closeAllTabs creates a tab, which takes an id
closeAllTabs ==
  /\ (\E k \in DOMAIN tabs : tabs[k].isPinned) \/ nextTabId <= MaxCreated
  /\ Returns("closeAllTabs", null, closeAllTabsOp(tabs, activeTabId, nextTabId))

NextTabs ==
  \/ createTab
  \/ closeTab
  \/ togglePin
  \/ closeOtherTabs
  \/ closeTabsToLeft
  \/ closeTabsToRight
  \/ closeAllTabs

InitTabs == Ready({<<>>}, {FALSE})

SpecTabs == InitTabs /\ [][NextTabs]_vars

\* C29: after any sequence of calls made with ids of existing tabs,
\* activeTabId is null or the id of a tab in tabs.
C29_ActiveTabExists == activeTabId = null \/ activeTabId \in TabIds

IsPinned(t) == t.isPinned

ClosingCalls == {"closeTab", "closeOtherTabs", "closeTabsToLeft", "closeTabsToRight",
                 "closeAllTabs"}

\* C30: no close operation removes a pinned tab: closeTab on a pinned tab
\* changes neither tabs nor activeTabId, and after each of the other close
\* operations the pinned tabs are those of before, in the same order.
C30_PinnedTabsSurviveClosing ==
  [][tabCall'.op \in ClosingCalls =>
       /\ SelectSeq(tabs', IsPinned) = SelectSeq(tabs, IsPinned)
       /\ (tabCall'.op = "closeTab"
             /\ (\E k \in DOMAIN tabs : tabs[k].id = tabCall'.id /\ tabs[k].isPinned))
            => UNCHANGED <<tabs, activeTabId>>]_vars

\* closeOtherTabs has closed a tab and kept a pinned one that was not its target
C30_OthersClosedPinnedKept ==
  /\ tabCall.op = "closeOtherTabs"
  /\ Len(tabs) < Len(tabCall.before)
  /\ \E k \in DOMAIN tabs : tabs[k].isPinned /\ tabs[k].id # tabCall.id

====
